---- MODULE Spec2Model ----
(***************************************************************************)
(* Calendaria: conversions between fixed dates (RD day counts) and the     *)
(* arithmetic calendars of namespace Calendars.                            *)
(*                                                                         *)
(* Numbers.  An integer is itself.  A non-integral number is carried as a  *)
(* numerator over an explicit positive denominator `den'; operators whose  *)
(* name ends in Q take (num, den) and compute what the code computes on    *)
(* the real number num/den.  The seconds field of a DateArray is carried   *)
(* in milliseconds (toArray rounds it to a whole number of milliseconds).  *)
(***************************************************************************)
EXTENDS Integers, Sequences, FiniteSets, TLC

\* cal:   the calendar whose functions are being applied ("none" before any)
\* pc:    how far the sequence of calls has come
\* date:  numerator of the fixed date; the fixed date is date / denom
\* denom: denominator of the fixed date (1 for an integer fixed date)
\* tuple: the calendar tuple (<<>> before any has been produced)
\* back:  the latest result (<<>> for none / null, <<n>> for a number n)
VARIABLES cal, pc, date, denom, tuple, back

\* givenYear: the year given to a function of a year (Gregorian.isLeapYear,
\*          Easter.Gregorian, Easter.Orthodox, the first day of an ISO year)
\* builder: the fields of the DateBuilder object (<<>> before it is made)
\* calDate: the fields of the CalendarDate object (<<>> while there is none)
\* thrown:  the Error the latest call threw (<<>> when it returned)
\* sky:     what the ephemeris library answers (<<>> where it is not asked)
VARIABLES givenYear, builder, calDate, thrown, sky

vars == <<cal, pc, date, denom, tuple, back,
          givenYear, builder, calDate, thrown, sky>>

\* the variables of the object layer and of the astronomical layer, which a
\* function of namespace Calendars on plain numbers does not touch
otherVars == <<givenYear, builder, calDate, thrown, sky>>

NoOthers ==
    /\ givenYear = 0
    /\ builder = <<>>
    /\ calDate = <<>>
    /\ thrown = <<>>
    /\ sky = <<>>

(***************************************************************************)
(* Bounds of the checked input space.                                      *)
(***************************************************************************)
HalfWindow == 400

\* non-integral fixed dates: whole days within FracHalfWindow of RD 0, each
\* with every strictly positive number of ticks, TicksPerDay ticks to the day
FracHalfWindow == 40

TicksPerDay == 24

\* years given to the functions of a year: the years within YearHalfWindow of
\* year 0 (negative years, year 0, 400) and of year 2000 (1900, 2023, 2024)
YearHalfWindow == 450

YearCenters == {0, 2000}

Years == UNION {(c - YearHalfWindow)..(c + YearHalfWindow) : c \in YearCenters}

\* fixed dates around which windows of integer dates are taken:
\* RD 0 (negative, zero, positive; Julian year -1 / year 1), 1 January 1900,
\* 1 January 2000 (a leap century year, ISO year 1998 of 53 weeks nearby)
Centers == {0, 693596, 730120}

Dates == UNION {(c - HalfWindow)..(c + HalfWindow) : c \in Centers}

\* for the Hebrew calendar also the days around its epoch (years 0 and 1)
HebrewHalfWindow == 400

HebrewCenters == {-1373427, 0, 730120}

HebrewDates ==
    UNION {(c - HebrewHalfWindow)..(c + HebrewHalfWindow) : c \in HebrewCenters}

\* Long Count tuples: every uinal and kin, the extreme and a middle value of
\* katun and tun, baktun from -MaxBaktun to MaxBaktun and 13
MaxBaktun == 1

LongCountTuples ==
    {<<b, k, t, u, n>> : b \in ((-MaxBaktun)..MaxBaktun) \cup {13},
                         k \in {0, 7, 19}, t \in {0, 19},
                         u \in 0..17, n \in 0..19}

\* query dates of the Calendar Round reconciliation
RoundHalfWindow == 1

RoundDates == (-RoundHalfWindow)..RoundHalfWindow

FracDates ==
    {n * TicksPerDay + k : n \in (-FracHalfWindow)..FracHalfWindow,
                           k \in 1..(TicksPerDay - 1)}

(***************************************************************************)
(* Numeric utilities                                                       *)
(***************************************************************************)
\* Math.floor(a / b) for integers a, b with b # 0
Floor(a, b) == IF b > 0 THEN a \div b ELSE (-a) \div (-b)

mod(a, b) == a - b * Floor(a, b)

amod(a, b) == b + mod(a, -b)

weekdayOnOrBefore(d, k) == d - mod(d - k, 7)

\* slip: the search starts six days after the date instead of seven
weekdayAfter_fromSixDaysOn(d, k) == weekdayOnOrBefore(d + 6, k)

weekdayAfter(d, k) == weekdayOnOrBefore(d + 7, k)

nthWeekday(n, k, d) ==
    IF n > 0 THEN 7 * n + weekdayOnOrBefore(d - 1, k)
    ELSE 7 * n + weekdayAfter(d, k)

getWeekday(d) == mod(Floor(d, 1), 7)

Sunday == 0

\* The one element of a one-element set.  Only({e(v) : v \in {c}}) is e(v)
\* for v the value of c, computed once, as a local constant of the code is.
Only(S) == CHOOSE x \in S : TRUE

\* Quotient and remainder of a * x by n (a >= 0, 0 < n < 2^26): <<q, r>> with
\* a * x = q * n + r and 0 <= r < n.  The code forms such products in double
\* precision, where they are exact; here they are accumulated one hexadecimal
\* digit of a at a time, so that no intermediate value leaves the 32-bit
\* range of the checker.
RECURSIVE MulQR(_, _, _)
MulQR(a, x, n) ==
    IF a = 0 THEN <<0, 0>>
    ELSE Only({ Only({ <<16 * high[1] + (a % 16) * Floor(x, n) + Floor(r2, n),
                         mod(r2, n)>> :
                       r2 \in {16 * high[2] + (a % 16) * mod(x, n)} }) :
                high \in {MulQR(a \div 16, x, n)} })

\* Math.floor((a * x + b) / n)
FloorLin(a, x, b, n) ==
    LET qr == MulQR(a, x, n)
    IN  qr[1] + Floor(qr[2] + b, n)

\* Math.round(num / den): the nearest integer, halves rounded up
Round(num, den) == Floor(2 * num + den, 2 * den)

\* Quotient and remainder of a * x by n for n up to 2^29, accumulated one
\* binary digit of a at a time.
RECURSIVE MulQRBinary(_, _, _)
MulQRBinary(a, x, n) ==
    IF a = 0 THEN <<0, 0>>
    ELSE Only({ Only({ <<2 * high[1] + (a % 2) * Floor(x, n) + Floor(r2, n),
                         mod(r2, n)>> :
                       r2 \in {2 * high[2] + (a % 2) * mod(x, n)} }) :
                high \in {MulQRBinary(a \div 2, x, n)} })

\* slip: the carry out of the last hour stays in the hour
toArrayQ_hour24(year, month, dayNum, den) ==
    LET rday == Floor(dayNum, den)
        excess == dayNum - rday * den
        hour == MulQRBinary(24, excess, den)[1]
        min == MulQRBinary(24 * 60, excess, den)[1] - hour * 60
        elapsedMs == MulQRBinary(24 * 60 * 60 * 1000, excess, den)
        ms == elapsedMs[1] + Round(elapsedMs[2], den)
                  - (min * 60 + hour * 60 * 60) * 1000
    IN  IF rday * den = dayNum THEN <<year, month, rday, 0, 0, 0>>
        ELSE IF Floor(ms, 1000) = 60
             THEN IF min + 1 = 60
                  THEN <<year, month, rday, hour + 1, 0, 0>>
                  ELSE <<year, month, rday, hour, min + 1, 0>>
             ELSE <<year, month, rday, hour, min, ms>>

\* toArray(year, month, day) for day = dayNum / den, in exact arithmetic; the
\* sixth element is the seconds in milliseconds (sec * 1000).
\*   excess = (dayNum - rday * den) / den
\*   hour   = floor(excess * 24)
\*   min    = floor(excess * 24 * 60 - hour * 60)
\*   sec    = round((excess * 24 * 60 * 60 - min * 60 - hour * 60 * 60) * 1000) / 1000
\* (the whole numbers hour * 60 and min * 60 + hour * 3600 leave floor and
\* round unchanged and are subtracted after them)
toArrayQ(year, month, dayNum, den) ==
    LET rday == Floor(dayNum, den)
        excess == dayNum - rday * den              \* excess * den
        hour == MulQRBinary(24, excess, den)[1]
        min == MulQRBinary(24 * 60, excess, den)[1] - hour * 60
        elapsedMs == MulQRBinary(24 * 60 * 60 * 1000, excess, den)
        ms == elapsedMs[1] + Round(elapsedMs[2], den)
                  - (min * 60 + hour * 60 * 60) * 1000
    IN  IF rday * den = dayNum THEN <<year, month, rday, 0, 0, 0>>
        ELSE IF Floor(ms, 1000) = 60
             THEN IF min + 1 = 60
                  THEN IF hour + 1 = 24
                       THEN <<year, month, rday + 1, 0, 0, 0>>
                       ELSE <<year, month, rday, hour + 1, 0, 0>>
                  ELSE <<year, month, rday, hour, min + 1, 0>>
             ELSE <<year, month, rday, hour, min, ms>>

toArray(year, month, day) == toArrayQ(year, month, day, 1)

(***************************************************************************)
(* Egyptian and Armenian                                                   *)
(***************************************************************************)
Egyptian_EPOCH == -272787

\* slip: the day is counted from 0 instead of 1
Egyptian_toFixed_dayFromZero(year, month, day) ==
    Egyptian_EPOCH + 365 * (year - 1) + 30 * (month - 1) + day

Egyptian_toFixed(year, month, day) ==
    Egyptian_EPOCH + 365 * (year - 1) + 30 * (month - 1) + day - 1

Egyptian_fromFixed(d) ==
    LET days == d - Egyptian_EPOCH
        year == Floor(days, 365) + 1
        month == Floor(mod(days, 365), 30) + 1
        day == days - 365 * (year - 1) - 30 * (month - 1) + 1
    IN  toArray(year, month, day)

Armenian_EPOCH == 201443

Armenian_toFixed(year, month, day) ==
    Armenian_EPOCH + Egyptian_toFixed(year, month, day) - Egyptian_EPOCH

Armenian_fromFixed(d) == Egyptian_fromFixed(d + Egyptian_EPOCH - Armenian_EPOCH)

(***************************************************************************)
(* Gregorian                                                               *)
(***************************************************************************)
\* slip: the century rule is left out (the Julian rule)
Gregorian_isLeapYear_everyFourth(year) == mod(year, 4) = 0

Gregorian_isLeapYear(year) ==
    (mod(year, 400) = 0) \/ (mod(year, 4) = 0 /\ mod(year, 100) # 0)

Gregorian_toFixed(year, month, day) ==
    LET correction == IF month > 2
                      THEN (IF Gregorian_isLeapYear(year) THEN -1 ELSE -2)
                      ELSE 0
    IN  365 * (year - 1) + Floor(year - 1, 4)
        - Floor(year - 1, 100) + Floor(year - 1, 400)
        + Floor(367 * month - 362, 12) + correction + day

\* slip: the last day of a 400-year cycle is counted into the next year
Gregorian_yearFromFixedQ_noCycleEnd(num, den) ==
    LET d0 == num - den
        c1 == 146097
        c2 == 36524
        c3 == 1461
        n400 == Floor(d0, c1 * den)
        d1 == mod(d0, c1 * den)
        n100 == Floor(d1, c2 * den)
        d2 == mod(d1, c2 * den)
        n4 == Floor(d2, c3 * den)
        d3 == mod(d2, c3 * den)
        n1 == Floor(d3, 365 * den)
        year == 400 * n400 + 100 * n100 + 4 * n4 + n1
    IN  IF n1 = 4 THEN year ELSE year + 1

\* yearFromFixed(num / den); every d_i below is the code's d_i times den
Gregorian_yearFromFixedQ(num, den) ==
    LET d0 == num - den
        c1 == 146097
        c2 == 36524
        c3 == 1461
        n400 == Floor(d0, c1 * den)
        d1 == mod(d0, c1 * den)
        n100 == Floor(d1, c2 * den)
        d2 == mod(d1, c2 * den)
        n4 == Floor(d2, c3 * den)
        d3 == mod(d2, c3 * den)
        n1 == Floor(d3, 365 * den)
        year == 400 * n400 + 100 * n100 + 4 * n4 + n1
    IN  IF n100 = 4 \/ n1 = 4 THEN year ELSE year + 1

Gregorian_yearFromFixed(d) == Gregorian_yearFromFixedQ(d, 1)

\* fromFixed(num / den)
Gregorian_fromFixedQ(num, den) ==
    LET year == Gregorian_yearFromFixedQ(num, den)
        priorDays == num - den * Gregorian_toFixed(year, 1, 1)   \* times den
        corr == IF num < den * Gregorian_toFixed(year, 3, 1) THEN 0
                ELSE IF Gregorian_isLeapYear(year) THEN 1
                ELSE 2
        month == Floor(12 * (priorDays + corr * den) + 373 * den, 367 * den)
        dayNum == num - den * Gregorian_toFixed(year, month, 1) + den
    IN  toArrayQ(year, month, dayNum, den)

Gregorian_fromFixed(d) == Gregorian_fromFixedQ(d, 1)

(***************************************************************************)
(* Julian                                                                  *)
(***************************************************************************)
Julian_isLeapYear(year) ==
    LET f == IF year > 0 THEN 0 ELSE 3
    IN  mod(year, 4) = f

Julian_EPOCH == -1

Julian_toFixed(year, month, day) ==
    LET y == IF year < 0 THEN year ELSE year - 1
        c == IF month <= 2 THEN 0
             ELSE IF Julian_isLeapYear(year) THEN -1
             ELSE -2
    IN  Julian_EPOCH - 1 + 365 * y + Floor(y, 4)
        + Floor(367 * month - 362, 12) + c + day

\* slip: the approximate year is used as it is, so year 0 is not skipped
Julian_fromFixed_withYearZero(d) ==
    LET year == Floor(4 * (d - Julian_EPOCH) + 1464, 1461)
        priorDays == d - Julian_toFixed(year, 1, 1)
        corr == IF d < Julian_toFixed(year, 3, 1) THEN 0
                ELSE IF Julian_isLeapYear(year) THEN 1
                ELSE 2
        month == Floor(12 * (priorDays + corr) + 373, 367)
        day == d - Julian_toFixed(year, month, 1) + 1
    IN  toArray(year, month, day)

Julian_fromFixed(d) ==
    LET approx == Floor(4 * (d - Julian_EPOCH) + 1464, 1461)
        year == IF approx > 0 THEN approx ELSE approx - 1
        priorDays == d - Julian_toFixed(year, 1, 1)
        corr == IF d < Julian_toFixed(year, 3, 1) THEN 0
                ELSE IF Julian_isLeapYear(year) THEN 1
                ELSE 2
        month == Floor(12 * (priorDays + corr) + 373, 367)
        day == d - Julian_toFixed(year, month, 1) + 1
    IN  toArray(year, month, day)

(***************************************************************************)
(* Roman                                                                   *)
(***************************************************************************)
Kalends == 1
Nones == 2
Ides == 3

ides(month) == IF month \in {3, 5, 7, 10} THEN 15 ELSE 13

nones(month) == ides(month) - 8

\* slip: the intercalated day of a leap-year February is not accounted for
Roman_toFixed_noBissextile(year, month, event, count, leap) ==
    LET d == IF event = Nones THEN nones(month)
             ELSE IF event = Ides THEN ides(month)
             ELSE 1
        L == IF leap THEN 1 ELSE 0
    IN  Julian_toFixed(year, month, d) - count + 1 + L

Roman_toFixed(year, month, event, count, leap) ==
    LET d == IF event = Nones THEN nones(month)
             ELSE IF event = Ides THEN ides(month)
             ELSE 1
        f == IF Julian_isLeapYear(year) /\ month = 3 /\ event = Kalends
                /\ count >= 6 /\ count <= 16
             THEN 0 ELSE 1
        L == IF leap THEN 1 ELSE 0
    IN  Julian_toFixed(year, month, d) - count + f + L

Roman_fromFixed(d) ==
    LET j == Julian_fromFixed(d)
        year == j[1]
        month == j[2]
        day == j[3]
        month2 == amod(month + 1, 12)
        year2 == IF month2 # 1 THEN year
                 ELSE IF year # -1 THEN year + 1
                 ELSE 1
        kalends1 == Roman_toFixed(year2, month2, Kalends, 1, FALSE)
    IN  IF day = 1 THEN <<year, month, Kalends, 1, FALSE>>
        ELSE IF day <= nones(month)
        THEN <<year, month, Nones, nones(month) - day + 1, FALSE>>
        ELSE IF day <= ides(month)
        THEN <<year, month, Ides, ides(month) - day + 1, FALSE>>
        ELSE IF month # 2 \/ ~Julian_isLeapYear(year)
        THEN <<year2, month2, Kalends, kalends1 - d + 1, FALSE>>
        ELSE IF day < 25
        THEN <<year, 3, Kalends, 30 - day, FALSE>>
        ELSE <<year, 3, Kalends, 31 - day, day = 25>>

(***************************************************************************)
(* Coptic and Ethiopic                                                     *)
(***************************************************************************)
Coptic_EPOCH == 103605

Coptic_toFixed(year, month, day) ==
    Coptic_EPOCH - 1 + 365 * (year - 1) + Floor(year, 4) + 30 * (month - 1) + day

Coptic_fromFixed(d) ==
    LET year == Floor(4 * (d - Coptic_EPOCH) + 1463, 1461)
        month == Floor(d - Coptic_toFixed(year, 1, 1), 30) + 1
        day == d + 1 - Coptic_toFixed(year, month, 1)
    IN  toArray(year, month, day)

Ethiopic_EPOCH == 2796

Ethiopic_toFixed(year, month, day) ==
    Ethiopic_EPOCH + Coptic_toFixed(year, month, day) - Coptic_EPOCH

Ethiopic_fromFixed(d) == Coptic_fromFixed(d + Coptic_EPOCH - Ethiopic_EPOCH)

(***************************************************************************)
(* ISO week calendar                                                       *)
(***************************************************************************)
\* slip: the weeks are counted from 29 December instead of 28 December
ISO_toFixed_fromDec29(year, week, day) ==
    nthWeekday(week, Sunday, Gregorian_toFixed(year - 1, 12, 29)) + day

ISO_toFixed(year, week, day) ==
    nthWeekday(week, Sunday, Gregorian_toFixed(year - 1, 12, 28)) + day

\* slip: the day of the week is taken with mod instead of amod
ISO_fromFixed_plainMod(d) ==
    LET approx == Gregorian_yearFromFixed(d - 3)
        year == IF d >= ISO_toFixed(approx + 1, 1, 1) THEN approx + 1 ELSE approx
        week == Floor(d - ISO_toFixed(year, 1, 1), 7) + 1
        day == mod(d, 7)
    IN  toArray(year, week, day)

ISO_fromFixed(d) ==
    LET approx == Gregorian_yearFromFixed(d - 3)
        year == IF d >= ISO_toFixed(approx + 1, 1, 1) THEN approx + 1 ELSE approx
        week == Floor(d - ISO_toFixed(year, 1, 1), 7) + 1
        day == amod(d, 7)
    IN  toArray(year, week, day)

(***************************************************************************)
(* Islamic (tabular)                                                       *)
(***************************************************************************)
Islamic_EPOCH == 227015

\* slip: day 1 of month 1 of year 1 is put on the day after the epoch
Islamic_toFixed_fromDayAfterEpoch(year, month, day) ==
    day + 29 * (month - 1) + Floor(6 * month - 1, 11)
    + 354 * (year - 1) + Floor(3 + 11 * year, 30) + Islamic_EPOCH

Islamic_toFixed(year, month, day) ==
    day + 29 * (month - 1) + Floor(6 * month - 1, 11)
    + 354 * (year - 1) + Floor(3 + 11 * year, 30) + Islamic_EPOCH - 1

Islamic_fromFixed(d) ==
    LET year == Floor(30 * (d - Islamic_EPOCH) + 10646, 10631)
        priorDays == d - Islamic_toFixed(year, 1, 1)
        month == Floor(11 * priorDays + 330, 325)
        day == d - Islamic_toFixed(year, month, 1) + 1
    IN  toArray(year, month, day)

(***************************************************************************)
(* Hebrew.  A molad is carried exactly, as the mixed number <<days, parts>> *)
(* standing for days + parts / 25920 with 0 <= parts < 25920.              *)
(***************************************************************************)
Hebrew_EPOCH == -1373427

TISHRI == 7

Hebrew_isLeapYear(year) == mod(7 * year + 1, 19) < 7

\* EPOCH - 876 / 25920 + monthsElapsed * (29.5 + 793 / 25920), where
\* 29.5 + 793 / 25920 = 765433 / 25920
molad(year, month) ==
    LET y == IF month < TISHRI THEN year + 1 ELSE year
        monthsElapsed == month - TISHRI + Floor(235 * y - 234, 19)
    IN  Only({ <<Hebrew_EPOCH + qr[1] + Floor(qr[2] - 876, 25920),
                 mod(qr[2] - 876, 25920)>> :
               qr \in {MulQR(765433, monthsElapsed, 25920)} })

\* slip: the new year is left on the day of the molad
elapsedDays_noPostponement(year) ==
    Only({ d :
           d \in { m[1] - Hebrew_EPOCH + Floor(m[2] + 12960, 25920) :
                   m \in {molad(year, TISHRI)} } })

\* d is Math.floor(molad - EPOCH + 0.5), 0.5 being 12960 / 25920
elapsedDays(year) ==
    Only({ IF mod(3 * (d + 1), 7) < 3 THEN d + 1 ELSE d :
           d \in { m[1] - Hebrew_EPOCH + Floor(m[2] + 12960, 25920) :
                   m \in {molad(year, TISHRI)} } })

\* slip: a year of 382 days is left as it is
newYearDelay_noSecondRule(year) ==
    Only({ IF ny2 - ny1 = 356 THEN 2
           ELSE 0 :
           ny1 \in {elapsedDays(year)}, ny2 \in {elapsedDays(year + 1)} })

newYearDelay(year) ==
    Only({ IF ny2 - ny1 = 356 THEN 2
           ELSE IF ny1 - elapsedDays(year - 1) = 382 THEN 1
           ELSE 0 :
           ny1 \in {elapsedDays(year)}, ny2 \in {elapsedDays(year + 1)} })

newYear(year) == Hebrew_EPOCH + elapsedDays(year) + newYearDelay(year)

daysInYear(year) == newYear(year + 1) - newYear(year)

isLongMarheshvan(year) == daysInYear(year) \in {355, 385}

isShortKislev(year) == daysInYear(year) \in {353, 383}

lastDayOfMonth(year, month) ==
    IF \/ month \in {2, 4, 6, 10, 13}
       \/ (month = 12 /\ ~Hebrew_isLeapYear(year))
       \/ (month = 8 /\ ~isLongMarheshvan(year))
       \/ (month = 9 /\ isShortKislev(year))
    THEN 29 ELSE 30

\* sum of lastDayOfMonth(year, m) for m = from, from + 1, ... while m < to
RECURSIVE SumLastDays(_, _, _)
SumLastDays(year, from, to) ==
    IF from < to
    THEN lastDayOfMonth(year, from) + SumLastDays(year, from + 1, to)
    ELSE 0

Hebrew_toFixed(year, month, day) ==
    LET lastMonth == IF Hebrew_isLeapYear(year) THEN 13 ELSE 12
        sum == IF month < TISHRI
               THEN SumLastDays(year, 1, month)
                    + SumLastDays(year, TISHRI, lastMonth + 1)
               ELSE SumLastDays(year, TISHRI, month)
    IN  newYear(year) + day - 1 + sum

\* the year search loop: the year left in `year' after the break
RECURSIVE YearSearch(_, _)
YearSearch(year, d) ==
    IF newYear(year) > d THEN year - 1 ELSE YearSearch(year + 1, d)

\* the month scan from iteration k on: the month left in `month' when the
\* loop breaks or runs out after its 13th iteration (k = 12)
RECURSIVE MonthScan_strictlyBefore(_, _, _, _)
\* slip: the scan goes past the month on its last day
MonthScan_strictlyBefore(year, d, startMonth, k) ==
    LET month == startMonth + k
    IN  IF k >= 12 \/ d < Hebrew_toFixed(year, month, lastDayOfMonth(year, month))
        THEN month
        ELSE MonthScan_strictlyBefore(year, d, startMonth, k + 1)

RECURSIVE MonthScan(_, _, _, _)
MonthScan(year, d, startMonth, k) ==
    LET month == startMonth + k
    IN  IF k >= 12 \/ d <= Hebrew_toFixed(year, month, lastDayOfMonth(year, month))
        THEN month
        ELSE MonthScan(year, d, startMonth, k + 1)

\* slip: the day of the month is counted from 0 instead of 1
Hebrew_fromFixed_dayFromZero(d) ==
    Only({ Only({ Only({ toArray(year, month, d - Hebrew_toFixed(year, month, 1)) :
                         month \in {MonthScan(year, d, startMonth, 0)} }) :
                  startMonth \in {IF d < Hebrew_toFixed(year, 1, 1)
                                  THEN TISHRI ELSE 1} }) :
           year \in { YearSearch(approx - 1, d) :
                      approx \in {FloorLin(98496, d - Hebrew_EPOCH, 0, 35975351) + 1} } })

Hebrew_fromFixed(d) ==
    Only({ Only({ Only({ toArray(year, month, d - Hebrew_toFixed(year, month, 1) + 1) :
                         month \in {MonthScan(year, d, startMonth, 0)} }) :
                  startMonth \in {IF d < Hebrew_toFixed(year, 1, 1)
                                  THEN TISHRI ELSE 1} }) :
           year \in { YearSearch(approx - 1, d) :
                      approx \in {FloorLin(98496, d - Hebrew_EPOCH, 0, 35975351) + 1} } })

(***************************************************************************)
(* Modified French Revolutionary calendar (arithmetical)                   *)
(***************************************************************************)
French_EPOCH == 654415

Modified_toFixed(year, month, day) ==
    French_EPOCH - 1 + 365 * (year - 1)
    + Floor(year - 1, 4) - Floor(year - 1, 100)
    + Floor(year - 1, 400) - Floor(year - 1, 4000)
    + 30 * (month - 1) + day

Modified_fromFixed(d) ==
    LET year0 == FloorLin(4000, d - French_EPOCH + 2, 0, 1460969) + 1
        year == IF d < Modified_toFixed(year0, 1, 1) THEN year0 - 1 ELSE year0
        month == Floor(d - Modified_toFixed(year, 1, 1), 30) + 1
        day == d - Modified_toFixed(year, month, 1) + 1
    IN  toArray(year, month, day)

(***************************************************************************)
(* Mayan: Long Count, Haab, Tzolkin and the Calendar Round                 *)
(***************************************************************************)
LongCount_EPOCH == -1137142

LongCount_toFixed(baktun, katun, tun, uinal, kin) ==
    LongCount_EPOCH + baktun * 144000 + katun * 7200 + tun * 360 + uinal * 20 + kin

\* slip: a tun is taken to be 20 uinal (400 days) when decomposing
LongCount_fromFixed_tunOf400(d) ==
    LET longCount == d - LongCount_EPOCH
        baktun == Floor(longCount, 144000)
        dayOfBaktun == mod(longCount, 144000)
        katun == Floor(dayOfBaktun, 7200)
        dayOfKatun == mod(dayOfBaktun, 7200)
        tun == Floor(dayOfKatun, 400)
        dayOfTun == mod(dayOfKatun, 400)
        uinal == Floor(dayOfTun, 20)
        kin == mod(dayOfTun, 20)
    IN  <<baktun, katun, tun, uinal, kin>>

LongCount_fromFixed(d) ==
    LET longCount == d - LongCount_EPOCH
        baktun == Floor(longCount, 144000)
        dayOfBaktun == mod(longCount, 144000)
        katun == Floor(dayOfBaktun, 7200)
        dayOfKatun == mod(dayOfBaktun, 7200)
        tun == Floor(dayOfKatun, 360)
        dayOfTun == mod(dayOfKatun, 360)
        uinal == Floor(dayOfTun, 20)
        kin == mod(dayOfTun, 20)
    IN  <<baktun, katun, tun, uinal, kin>>

Haab_ordinal(month, day) == (month - 1) * 20 + day

Haab_EPOCH == LongCount_EPOCH - Haab_ordinal(18, 8)

Haab_fromFixed(d) ==
    LET count == mod(d - Haab_EPOCH, 365)
        day == mod(count, 20)
        month == Floor(count, 20) + 1
    IN  <<month, day>>

Tzolkin_ordinal(number, name) == mod(number - 1 + 39 * (number - name), 260)

Tzolkin_EPOCH == LongCount_EPOCH - Tzolkin_ordinal(4, 20)

\* slip: the number and the name are taken with mod instead of amod
Tzolkin_fromFixed_plainMod(d) ==
    LET count == d - Tzolkin_EPOCH + 1
        number == mod(count, 13)
        name == mod(count, 20)
    IN  <<number, name>>

Tzolkin_fromFixed(d) ==
    LET count == d - Tzolkin_EPOCH + 1
        number == amod(count, 13)
        name == amod(count, 20)
    IN  <<number, name>>

\* the result is <<r>> for the date r and <<>> for null
roundOnOrBefore(haabMonth, haabDay, tzolkinNumber, tzolkinName, d) ==
    LET haabCount == Haab_ordinal(haabMonth, haabDay) + LongCount_EPOCH
        tzolkinCount == Tzolkin_ordinal(tzolkinNumber, tzolkinName) + LongCount_EPOCH
        diff == tzolkinCount - haabCount
    IN  IF mod(diff, 5) = 0
        THEN <<d - mod(d - haabCount - 365 * diff, 18980)>>
        ELSE <<>>

(***************************************************************************)
(* State machine.  A fixed date is drawn; one calendar's fromFixed turns   *)
(* it into a tuple (pc = "converted"); the same calendar's toFixed turns   *)
(* the tuple back into a fixed date (pc = "done", back = <<fixed date>>).  *)
(***************************************************************************)
Init ==
    /\ cal = "none"
    /\ pc = "start"
    /\ date \in Dates
    /\ denom = 1
    /\ tuple = <<>>
    /\ back = <<>>
    /\ NoOthers

\* a fixed date with a time of day
InitFrac ==
    /\ cal = "none"
    /\ pc = "start"
    /\ date \in FracDates
    /\ denom = TicksPerDay
    /\ tuple = <<>>
    /\ back = <<>>
    /\ NoOthers

FromFixed(c, t) ==
    /\ pc = "start"
    /\ cal' = c
    /\ tuple' = t
    /\ pc' = "converted"
    /\ UNCHANGED <<date, denom, back>>
    /\ UNCHANGED otherVars

ToFixed(c, n) ==
    /\ pc = "converted"
    /\ cal = c
    /\ back' = <<n>>
    /\ pc' = "done"
    /\ UNCHANGED <<cal, date, denom, tuple>>
    /\ UNCHANGED otherVars

GregorianFromFixed == FromFixed("Gregorian", Gregorian_fromFixedQ(date, denom))

GregorianToFixed ==
    ToFixed("Gregorian", Gregorian_toFixed(tuple[1], tuple[2], tuple[3]))

EgyptianFromFixed == FromFixed("Egyptian", Egyptian_fromFixed(date))

EgyptianToFixed ==
    ToFixed("Egyptian", Egyptian_toFixed(tuple[1], tuple[2], tuple[3]))

ArmenianFromFixed == FromFixed("Armenian", Armenian_fromFixed(date))

ArmenianToFixed ==
    ToFixed("Armenian", Armenian_toFixed(tuple[1], tuple[2], tuple[3]))

CopticFromFixed == FromFixed("Coptic", Coptic_fromFixed(date))

CopticToFixed ==
    ToFixed("Coptic", Coptic_toFixed(tuple[1], tuple[2], tuple[3]))

EthiopicFromFixed == FromFixed("Ethiopic", Ethiopic_fromFixed(date))

EthiopicToFixed ==
    ToFixed("Ethiopic", Ethiopic_toFixed(tuple[1], tuple[2], tuple[3]))

IslamicFromFixed == FromFixed("Islamic", Islamic_fromFixed(date))

IslamicToFixed ==
    ToFixed("Islamic", Islamic_toFixed(tuple[1], tuple[2], tuple[3]))

ModifiedFromFixed == FromFixed("ModifiedFrench", Modified_fromFixed(date))

ModifiedToFixed ==
    ToFixed("ModifiedFrench", Modified_toFixed(tuple[1], tuple[2], tuple[3]))

JulianFromFixed == FromFixed("Julian", Julian_fromFixed(date))

JulianToFixed ==
    ToFixed("Julian", Julian_toFixed(tuple[1], tuple[2], tuple[3]))

RomanFromFixed == FromFixed("Roman", Roman_fromFixed(date))

RomanToFixed ==
    ToFixed("Roman",
            Roman_toFixed(tuple[1], tuple[2], tuple[3], tuple[4], tuple[5]))

ISOFromFixed == FromFixed("ISO", ISO_fromFixed(date))

ISOToFixed == ToFixed("ISO", ISO_toFixed(tuple[1], tuple[2], tuple[3]))

HebrewFromFixed == FromFixed("Hebrew", Hebrew_fromFixed(date))

HebrewToFixed ==
    ToFixed("Hebrew", Hebrew_toFixed(tuple[1], tuple[2], tuple[3]))

LongCountFromFixed == FromFixed("MayanLongCount", LongCount_fromFixed(date))

LongCountToFixed ==
    ToFixed("MayanLongCount",
            LongCount_toFixed(tuple[1], tuple[2], tuple[3], tuple[4], tuple[5]))

HaabFromFixed == FromFixed("MayanHaab", Haab_fromFixed(date))

TzolkinFromFixed == FromFixed("MayanTzolkin", Tzolkin_fromFixed(date))

\* the other way round: a Long Count tuple is given (pc = "given"), toFixed
\* makes it a fixed date (pc = "fixed"), fromFixed decomposes that date again
\* (pc = "returned", back = the tuple obtained)
LongCountToFixedFirst ==
    /\ pc = "given"
    /\ date' = LongCount_toFixed(tuple[1], tuple[2], tuple[3], tuple[4], tuple[5])
    /\ pc' = "fixed"
    /\ UNCHANGED <<cal, denom, tuple, back>>
    /\ UNCHANGED otherVars

LongCountFromFixedBack ==
    /\ pc = "fixed"
    /\ back' = LongCount_fromFixed(date)
    /\ pc' = "returned"
    /\ UNCHANGED <<cal, date, denom, tuple>>
    /\ UNCHANGED otherVars

\* Calendar Round reconciliation for any Haab and Tzolkin designation
RoundOnOrBefore ==
    /\ pc = "start"
    /\ \E haabMonth \in 1..19, haabDay \in 0..19,
          tzolkinNumber \in 1..13, tzolkinName \in 1..20 :
            /\ tuple' = <<haabMonth, haabDay, tzolkinNumber, tzolkinName>>
            /\ back' = roundOnOrBefore(haabMonth, haabDay, tzolkinNumber,
                                       tzolkinName, date)
    /\ cal' = "MayanRound"
    /\ pc' = "done"
    /\ UNCHANGED <<date, denom>>
    /\ UNCHANGED otherVars

Next ==
    \/ GregorianFromFixed \/ GregorianToFixed
    \/ EgyptianFromFixed \/ EgyptianToFixed
    \/ ArmenianFromFixed \/ ArmenianToFixed
    \/ CopticFromFixed \/ CopticToFixed
    \/ EthiopicFromFixed \/ EthiopicToFixed
    \/ IslamicFromFixed \/ IslamicToFixed
    \/ ModifiedFromFixed \/ ModifiedToFixed
    \/ JulianFromFixed \/ JulianToFixed
    \/ RomanFromFixed \/ RomanToFixed
    \/ ISOFromFixed \/ ISOToFixed

Spec == Init /\ [][Next]_vars

\* fixed dates for the Hebrew calendar
InitHebrew ==
    /\ cal = "none"
    /\ pc = "start"
    /\ date \in HebrewDates
    /\ denom = 1
    /\ tuple = <<>>
    /\ back = <<>>
    /\ NoOthers

NextHebrew == HebrewFromFixed \/ HebrewToFixed

SpecHebrew == InitHebrew /\ [][NextHebrew]_vars

\* a fixed date to decompose, or a Long Count tuple to convert
InitMayan ==
    \/ Init
    \/ /\ cal = "MayanLongCount"
       /\ pc = "given"
       /\ date = 0
       /\ denom = 1
       /\ tuple \in LongCountTuples
       /\ back = <<>>
       /\ NoOthers

NextMayan ==
    \/ LongCountFromFixed \/ LongCountToFixed
    \/ LongCountToFixedFirst \/ LongCountFromFixedBack
    \/ HaabFromFixed \/ TzolkinFromFixed

SpecMayan == InitMayan /\ [][NextMayan]_vars

InitRound ==
    /\ cal = "none"
    /\ pc = "start"
    /\ date \in RoundDates
    /\ denom = 1
    /\ tuple = <<>>
    /\ back = <<>>
    /\ NoOthers

NextRound == RoundOnOrBefore

SpecRound == InitRound /\ [][NextRound]_vars

NextFrac == GregorianFromFixed

SpecFrac == InitFrac /\ [][NextFrac]_vars

(***************************************************************************)
(* Properties of the arithmetic calendars                                  *)
(***************************************************************************)
RoundTripCalendars ==
    {"Gregorian", "Egyptian", "Armenian", "Coptic", "Ethiopic", "Islamic",
     "ModifiedFrench"}

\* C1: for each of Gregorian, Egyptian, Armenian, Coptic, Ethiopic, Islamic and
\* Modified French and every integer fixed date d, fromFixed(d) is
\* [y, m, day, 0, 0, 0] with integer y, m, day, and toFixed(y, m, day) = d.
RoundTripArithmetic ==
    (cal \in RoundTripCalendars /\ pc \in {"converted", "done"}) =>
        /\ Len(tuple) = 6
        /\ tuple[1] \in Int /\ tuple[2] \in Int /\ tuple[3] \in Int
        /\ tuple[4] = 0 /\ tuple[5] = 0 /\ tuple[6] = 0
        /\ (pc = "done" => back = <<date>>)

\* a negative fixed date has gone through fromFixed and toFixed
RoundTripArithmeticReached ==
    /\ pc = "done"
    /\ cal \in RoundTripCalendars
    /\ date < 0
    /\ back = <<date>>

\* C3: for every integer fixed date d, Julian.fromFixed(d) = [y, m, day, 0, 0, 0]
\* has y # 0 (the day before 1 January of year 1 is 31 December of year -1),
\* 1 <= m <= 12, and Julian.toFixed(y, m, day) = d.
JulianNoYearZero ==
    (cal = "Julian" /\ pc \in {"converted", "done"}) =>
        /\ tuple[1] # 0
        /\ tuple[2] >= 1 /\ tuple[2] <= 12
        /\ tuple[4] = 0 /\ tuple[5] = 0 /\ tuple[6] = 0
        /\ (date = -2 => tuple = <<-1, 12, 31, 0, 0, 0>>)
        /\ (date = -1 => tuple = <<1, 1, 1, 0, 0, 0>>)
        /\ (pc = "done" => back = <<date>>)

\* the last day of Julian year -1 has been converted there and back
JulianNoYearZeroReached ==
    /\ pc = "done"
    /\ cal = "Julian"
    /\ date = -2
    /\ tuple[1] = -1
    /\ back = <<date>>

\* C4: for every integer fixed date d, Roman.fromFixed(d) =
\* [year, month, event, count, leap] satisfies Roman.toFixed of that 5-tuple = d;
\* in February of a Julian leap year the leap flag is set only on 25 February,
\* and December days after the Ides are counted to the Kalends of January of
\* the following year, year -1 rolling over to year 1.
RomanRoundTrip ==
    (cal = "Roman" /\ pc \in {"converted", "done"}) =>
        LET j == Julian_fromFixed(date)
        IN  /\ Len(tuple) = 5
            /\ tuple[5] = (Julian_isLeapYear(j[1]) /\ j[2] = 2 /\ j[3] = 25)
            /\ (j[2] = 12 /\ j[3] > 13) =>
                   /\ tuple[2] = 1 /\ tuple[3] = Kalends
                   /\ tuple[1] = (IF j[1] = -1 THEN 1 ELSE j[1] + 1)
            /\ (pc = "done" => back = <<date>>)

\* 25 February of a Julian leap year (leap flag set) has been converted back
RomanRoundTripReached ==
    /\ pc = "done"
    /\ cal = "Roman"
    /\ tuple[5] = TRUE
    /\ back = <<date>>

\* C6: for every integer fixed date d, ISO.fromFixed(d) = [y, w, wd, 0, 0, 0]
\* has 1 <= w <= 53, 1 <= wd <= 7 with wd congruent to d modulo 7
\* (Monday = 1 ... Sunday = 7), and ISO.toFixed(y, w, wd) = d.
ISORoundTrip ==
    (cal = "ISO" /\ pc \in {"converted", "done"}) =>
        /\ tuple[2] >= 1 /\ tuple[2] <= 53
        /\ tuple[3] >= 1 /\ tuple[3] <= 7
        /\ mod(tuple[3] - date, 7) = 0
        /\ tuple[4] = 0 /\ tuple[5] = 0 /\ tuple[6] = 0
        /\ (pc = "done" => back = <<date>>)

\* a Sunday (day 7) of a week 53 has been converted there and back
ISORoundTripReached ==
    /\ pc = "done"
    /\ cal = "ISO"
    /\ tuple[2] = 53
    /\ tuple[3] = 7
    /\ back = <<date>>

(***************************************************************************)
(* Fixed dates with a time of day                                          *)
(***************************************************************************)
\* C2: for every non-integer fixed date d = n + f (n an integer, 0 < f < 1),
\* Gregorian.fromFixed(d) is the year, month and day of month of
\* Gregorian.fromFixed(n) followed by the hour, minute and second of f; the
\* month is the month of day n and the day of month is never 0.
GregorianKeepsDayOfFractionalDate ==
    (cal = "Gregorian" /\ pc = "converted" /\ denom > 1) =>
        LET n == Floor(date, denom)
            f == date - n * denom
            whole == Gregorian_fromFixed(n)
            time == toArrayQ(0, 0, f, denom)
        IN  /\ SubSeq(tuple, 1, 3) = SubSeq(whole, 1, 3)
            /\ SubSeq(tuple, 4, 6) = SubSeq(time, 4, 6)
            /\ tuple[3] # 0

(***************************************************************************)
(* Hebrew calendar                                                         *)
(***************************************************************************)
\* C5: for every integer fixed date d, Hebrew.fromFixed(d) = [y, m, day, 0, 0, 0]
\* satisfies Hebrew.toFixed(y, m, day) = d (the molad arithmetic being exact).
HebrewRoundTrip ==
    (cal = "Hebrew" /\ pc \in {"converted", "done"}) =>
        /\ Len(tuple) = 6
        /\ tuple[4] = 0 /\ tuple[5] = 0 /\ tuple[6] = 0
        /\ (pc = "done" => back = <<date>>)

\* a day of the 13th month of a leap year has been converted there and back
HebrewRoundTripReached ==
    /\ pc = "done"
    /\ cal = "Hebrew"
    /\ tuple[2] = 13
    /\ back = <<date>>

(***************************************************************************)
(* Mayan calendars                                                         *)
(***************************************************************************)
\* C7: Mayan.LongCount.toFixed and fromFixed are mutual inverses: for every
\* integer d, fromFixed(d) = [baktun, katun, tun, uinal, kin] has katun, tun,
\* kin in 0..19 and uinal in 0..17 and toFixed of it is d; and for every tuple
\* with digits in those ranges (such as [13, 0, 0, 0, 0]) fromFixed(toFixed(tuple))
\* is the tuple.
LongCountInverses ==
    /\ (cal = "MayanLongCount" /\ pc \in {"converted", "done"}) =>
           /\ Len(tuple) = 5
           /\ tuple[2] \in 0..19 /\ tuple[3] \in 0..19
           /\ tuple[4] \in 0..17 /\ tuple[5] \in 0..19
           /\ (pc = "done" => back = <<date>>)
    /\ (cal = "MayanLongCount" /\ pc = "returned") => back = tuple

\* the tuple [13, 0, 0, 0, 0] has been converted to a fixed date and back
LongCountInversesReached ==
    /\ pc = "returned"
    /\ tuple = <<13, 0, 0, 0, 0>>
    /\ back = tuple

\* C10: for every integer fixed date d, Tzolkin.fromFixed(d + 260) =
\* Tzolkin.fromFixed(d) and Haab.fromFixed(d + 365) = Haab.fromFixed(d), and no
\* smaller positive shift leaves the result unchanged; the Tzolkin number is in
\* 1..13 and the name in 1..20; the Haab month is in 1..19 and the Haab day in
\* 0..19 (0..4 in month 19).
MayanCycles ==
    /\ (cal = "MayanTzolkin" /\ pc = "converted") =>
           /\ tuple[1] \in 1..13 /\ tuple[2] \in 1..20
           /\ Tzolkin_fromFixed(date + 260) = tuple
           /\ \A shift \in 1..259 : Tzolkin_fromFixed(date + shift) # tuple
    /\ (cal = "MayanHaab" /\ pc = "converted") =>
           /\ tuple[1] \in 1..19 /\ tuple[2] \in 0..19
           /\ (tuple[1] = 19 => tuple[2] \in 0..4)
           /\ Haab_fromFixed(date + 365) = tuple
           /\ \A shift \in 1..364 : Haab_fromFixed(date + shift) # tuple

\* a negative date has been given the Tzolkin number 13 and name 20
MayanCyclesReached ==
    /\ pc = "converted"
    /\ cal = "MayanTzolkin"
    /\ date < 0
    /\ tuple = <<13, 20>>

\* the Haab and Tzolkin designations carried together by some fixed date (the
\* two cycles repeat together every 18980 days)
OccursTogether(haabMonth, haabDay, tzolkinNumber, tzolkinName) ==
    \E r \in 0..18979 :
        /\ Haab_fromFixed(r) = <<haabMonth, haabDay>>
        /\ Tzolkin_fromFixed(r) = <<tzolkinNumber, tzolkinName>>

\* C8: whenever Mayan.roundOnOrBefore(haabMonth, haabDay, tzolkinNumber,
\* tzolkinName, date) returns a non-null r, it is the most recent date matching
\* both designations: r <= date, date - r < 18980, Haab.fromFixed(r) =
\* [haabMonth, haabDay] and Tzolkin.fromFixed(r) = [tzolkinNumber, tzolkinName].
RoundIsMostRecentMatch ==
    (cal = "MayanRound" /\ pc = "done" /\ back # <<>>) =>
        LET r == back[1]
        IN  /\ r <= date
            /\ date - r < 18980
            /\ Haab_fromFixed(r) = <<tuple[1], tuple[2]>>
            /\ Tzolkin_fromFixed(r) = <<tuple[3], tuple[4]>>

\* C9: Mayan.roundOnOrBefore returns null exactly for the designation pairs
\* that no fixed date carries together; for every pair that does occur on some
\* fixed date it returns a date.
RoundNullOnlyWhenImpossible ==
    (cal = "MayanRound" /\ pc = "done") =>
        ((back = <<>>) <=> ~OccursTogether(tuple[1], tuple[2], tuple[3], tuple[4]))

(***************************************************************************)
(* Weekday helpers.  A fixed date is drawn and one helper is applied to    *)
(* it: cal names the helper, tuple holds the weekday asked for, back the   *)
(* result.                                                                 *)
(***************************************************************************)
WeekdayCall(c, t, n) ==
    /\ pc = "start"
    /\ cal' = c
    /\ tuple' = t
    /\ back' = <<n>>
    /\ pc' = "done"
    /\ UNCHANGED <<date, denom>>
    /\ UNCHANGED otherVars

GetWeekday == WeekdayCall("getWeekday", <<>>, getWeekday(date))

WeekdayOnOrBefore ==
    \E k \in 0..6 : WeekdayCall("weekdayOnOrBefore", <<k>>, weekdayOnOrBefore(date, k))

WeekdayAfter ==
    \E k \in 0..6 : WeekdayCall("weekdayAfter", <<k>>, weekdayAfter(date, k))

NextWeekday == GetWeekday \/ WeekdayOnOrBefore \/ WeekdayAfter

SpecWeekday == Init /\ [][NextWeekday]_vars

\* C11: the weekday of an integer fixed date d is d mod 7, in 0..6, and the
\* same seven days later; weekdayOnOrBefore(d, k) is the date of weekday k
\* among d - 6 .. d; weekdayAfter(d, k) is the one date of weekday k among
\* d + 1 .. d + 7.
WeekdayCycle ==
    /\ cal = "getWeekday" =>
           /\ back[1] \in 0..6
           /\ back[1] = date % 7
           /\ getWeekday(date + 7) = back[1]
    /\ cal = "weekdayOnOrBefore" =>
           /\ back[1] <= date
           /\ date < back[1] + 7
           /\ getWeekday(back[1]) = tuple[1]
    /\ cal = "weekdayAfter" =>
           /\ back[1] \in (date + 1)..(date + 7)
           /\ \A x \in (date + 1)..(date + 7) :
                  (getWeekday(x) = tuple[1]) <=> (x = back[1])

\* a negative date whose own weekday is asked for: the answer is a week later
WeekdayCycleReached ==
    /\ cal = "weekdayAfter"
    /\ date < 0
    /\ getWeekday(date) = tuple[1]
    /\ back = <<date + 7>>

(***************************************************************************)
(* Easter                                                                  *)
(***************************************************************************)
\* slip: the shifted epact is used without its adjustment
Easter_Gregorian_paschalMoon_unadjusted(year) ==
    LET c == Floor(year, 100) + 1
        shiftedEpact == mod(14 + 11 * Floor(mod(year, 19), 1)
                            - Floor(3 * c, 4) + Floor(5 + 8 * c, 25), 30)
    IN  Gregorian_toFixed(year, 4, 19) - shiftedEpact

\* the local constant paschalMoon of Easter.Gregorian
Easter_Gregorian_paschalMoon(year) ==
    LET c == Floor(year, 100) + 1
        shiftedEpact == mod(14 + 11 * Floor(mod(year, 19), 1)
                            - Floor(3 * c, 4) + Floor(5 + 8 * c, 25), 30)
        adjustedEpact == IF shiftedEpact = 0
                            \/ (shiftedEpact = 1 /\ 10 < mod(year, 19))
                         THEN shiftedEpact + 1
                         ELSE shiftedEpact
    IN  Gregorian_toFixed(year, 4, 19) - adjustedEpact

Easter_Gregorian(year) ==
    weekdayAfter(Easter_Gregorian_paschalMoon(year), Sunday)

\* slip: the shift from the Julian to the Gregorian epoch is left out
Easter_Orthodox_julianEpoch(year) ==
    LET paschalMoon == 354 * year + 30 * Floor(7 * year + 8, 19)
                       + Floor(year, 4) - Floor(year, 19) - 273
    IN  weekdayAfter(paschalMoon, Sunday)

Easter_Orthodox(year) ==
    LET paschalMoon == 354 * year + 30 * Floor(7 * year + 8, 19)
                       + Floor(year, 4) - Floor(year, 19) - 272
    IN  weekdayAfter(paschalMoon, Sunday)

(***************************************************************************)
(* Functions of a year.  A year is drawn and one function is applied to    *)
(* it: cal names the function, back holds its result.                      *)
(***************************************************************************)
InitYear ==
    /\ cal = "none"
    /\ pc = "start"
    /\ date = 0
    /\ denom = 1
    /\ tuple = <<>>
    /\ back = <<>>
    /\ givenYear \in Years
    /\ builder = <<>>
    /\ calDate = <<>>
    /\ thrown = <<>>
    /\ sky = <<>>

YearCall(c, r) ==
    /\ pc = "start"
    /\ cal' = c
    /\ back' = <<r>>
    /\ pc' = "done"
    /\ UNCHANGED <<date, denom, tuple>>
    /\ UNCHANGED otherVars

GregorianIsLeapYear ==
    YearCall("Gregorian.isLeapYear", Gregorian_isLeapYear(givenYear))

EasterGregorian == YearCall("Easter.Gregorian", Easter_Gregorian(givenYear))

EasterOrthodox == YearCall("Easter.Orthodox", Easter_Orthodox(givenYear))

\* ISO.toFixed(year, 1, 1): day 1 of week 1 of the ISO year
ISOFirstDay == YearCall("ISO.toFixed", ISO_toFixed(givenYear, 1, 1))

HebrewNewYear == YearCall("Hebrew.newYear", newYear(givenYear))

HebrewDaysInYear == YearCall("Hebrew.daysInYear", daysInYear(givenYear))

NextYear ==
    \/ GregorianIsLeapYear
    \/ EasterGregorian
    \/ EasterOrthodox
    \/ ISOFirstDay
    \/ HebrewNewYear
    \/ HebrewDaysInYear

SpecYear == InitYear /\ [][NextYear]_vars

DivisibleBy(y, n) ==
    \E q \in (IF y < 0 THEN y ELSE -y)..(IF y < 0 THEN -y ELSE y) : q * n = y

\* C12: Gregorian.isLeapYear(y) is true exactly when y is divisible by 4 and
\* not by 100, or divisible by 400 (2000 and 2024 are leap years, 1900 and
\* 2023 are not), and exactly when the year y has 366 days.
GregorianLeapRule ==
    cal = "Gregorian.isLeapYear" =>
        /\ back[1] <=> \/ (DivisibleBy(givenYear, 4) /\ ~DivisibleBy(givenYear, 100))
                       \/ DivisibleBy(givenYear, 400)
        /\ back[1] <=> (Gregorian_toFixed(givenYear + 1, 1, 1)
                        - Gregorian_toFixed(givenYear, 1, 1) = 366)
        /\ givenYear \in {2000, 2024} => back[1]
        /\ givenYear \in {1900, 2023} => ~back[1]

\* a negative century year that is no leap year
GregorianLeapRuleReached ==
    /\ cal = "Gregorian.isLeapYear"
    /\ givenYear = -100
    /\ back = <<FALSE>>

\* C13: Easter.Gregorian(2024) is 31 March 2024 and Easter.Orthodox(2024) is
\* 5 May 2024 (Gregorian).
Easter2024 ==
    /\ (cal = "Easter.Gregorian" /\ givenYear = 2024) =>
           back = <<Gregorian_toFixed(2024, 3, 31)>>
    /\ (cal = "Easter.Orthodox" /\ givenYear = 2024) =>
           back = <<Gregorian_toFixed(2024, 5, 5)>>

Easter2024Reached ==
    /\ cal = "Easter.Orthodox"
    /\ givenYear = 2024
    /\ back = <<739011>>

\* C17: ISO.toFixed(y, 1, 1) is a Monday from 29 December of year y - 1 to
\* 4 January of year y, the Monday of the week that holds 4 January of year
\* y; ISO 2019 week 1 day 1 is 31 December 2018.
ISOYearStart ==
    cal = "ISO.toFixed" =>
        /\ getWeekday(back[1]) = 1
        /\ Gregorian_toFixed(givenYear - 1, 12, 29) <= back[1]
        /\ back[1] <= Gregorian_toFixed(givenYear, 1, 4)
        /\ Gregorian_toFixed(givenYear, 1, 4) <= back[1] + 6
        /\ givenYear = 2019 => back[1] = Gregorian_toFixed(2018, 12, 31)

\* a year whose first ISO day is 4 January itself
ISOYearStartReached ==
    /\ cal = "ISO.toFixed"
    /\ back = <<Gregorian_toFixed(givenYear, 1, 4)>>
    /\ givenYear < 0

(***************************************************************************)
(* Object layer: CalendarDate and DateBuilder.                             *)
(*                                                                         *)
(* A moment (a fixed date with a time of day, a Julian day number, the     *)
(* time value of a JavaScript Date counted in days) is carried as the      *)
(* mixed number <<days, ms>>, standing for days + ms / 86400000 with       *)
(* 0 <= ms < 86400000.  A time zone is a whole number of hours.            *)
(***************************************************************************)
MILLISECONDS_PER_DAY == 86400000

UNIX_DATE_EPOCH == 719163

\* days + ms / MILLISECONDS_PER_DAY as a mixed number
Moment(days, ms) ==
    <<days + Floor(ms, MILLISECONDS_PER_DAY), mod(ms, MILLISECONDS_PER_DAY)>>

\* Calendars.toFixed(jsDate), jsDate being the time value of the Date
Calendars_toFixed(jsDate) == <<UNIX_DATE_EPOCH + jsDate[1], jsDate[2]>>

\* Calendars.fromFixed(date): the time value of the Date made
Calendars_fromFixed(m) == <<m[1] - UNIX_DATE_EPOCH, m[2]>>

\* -1721424.5
JD_EPOCH == <<-1721425, 43200000>>

JD_fromFixed(m) == Moment(m[1] - JD_EPOCH[1], m[2] - JD_EPOCH[2])

\* slip: the lower limit is written 12 instead of -12
validateTimezone_lowerLimitTwelve(z) ==
    IF z < 12 \/ z > 14 THEN <<"Illegal Time Zone", z>> ELSE <<>>

\* the Error thrown, <<>> when none is
validateTimezone(z) ==
    IF z < -12 \/ z > 14 THEN <<"Illegal Time Zone", z>> ELSE <<>>

\* new CalendarDate(date, timezone) at the clock time now.
\* arg is <<"undefined">>, <<"number", days, ms>> or <<"Date", days, ms>>;
\* timezone is <<>> (not given) or <<z>>.  The result is the object made
\* and the Error thrown; a constructor that throws makes no object.
CalendarDate(arg, timezone, now) ==
    LET falsy == \/ arg[1] = "undefined"
                 \/ (arg[1] = "number" /\ arg[2] = 0 /\ arg[3] = 0)
        given == IF falsy THEN <<"Date", now[1], now[2]>> ELSE arg
        value == <<given[2], given[3]>>
        rd == IF given[1] = "Date" THEN Calendars_toFixed(value) ELSE value
        jsDate == IF given[1] = "Date" THEN value ELSE Calendars_fromFixed(value)
        truthy == timezone # <<>> /\ timezone[1] # 0
        error == IF truthy THEN validateTimezone(timezone[1]) ELSE <<>>
    IN  IF error # <<>>
        THEN [object |-> <<>>, error |-> error]
        ELSE [object |-> [rd |-> rd, date |-> jsDate,
                          timeZone |-> IF truthy THEN timezone[1] ELSE 0],
              error |-> <<>>]

toRD(cd) == cd.rd

toJulianDayNumber(cd) == JD_fromFixed(cd.rd)

toDate(cd) == cd.date

\* new DateBuilder(type, ...args)
DateBuilder(type, args) ==
    LET len == Len(args)
    IN  [t  |-> type,
         y  |-> IF len > 0 THEN args[1] ELSE 1,
         m  |-> IF len > 1 /\ type # "ISO" THEN args[2] ELSE 1,
         w  |-> IF len > 1 /\ type = "ISO" THEN args[2] ELSE 1,
         d  |-> IF len > 2 THEN args[3] ELSE 1,
         hh |-> IF len > 3 THEN args[4] ELSE 0,
         mm |-> IF len > 4 THEN args[5] ELSE 0,
         ss |-> IF len > 5 THEN args[6] ELSE 0,
         z  |-> IF len > 6 THEN args[7] ELSE 0]

\* DateBuilder.build() at the clock time now.  The day handed to toFixed is
\* d + hh/24 + mm/1440 + ss/86400 - z/24; every toFixed adds its day argument
\* to a whole number, so the whole days go through toFixed and the
\* milliseconds of the day are carried beside it.
build(b, now) ==
    LET dayMs == b.hh * 3600000 + b.mm * 60000 + b.ss * 1000 - b.z * 3600000
        day == b.d + Floor(dayMs, MILLISECONDS_PER_DAY)
        fixed ==
            CASE b.t = "Armenian" -> Armenian_toFixed(b.y, b.m, day)
              [] b.t = "Coptic" -> Coptic_toFixed(b.y, b.m, day)
              [] b.t = "Egyptian" -> Egyptian_toFixed(b.y, b.m, day)
              [] b.t = "Ethiopic" -> Ethiopic_toFixed(b.y, b.m, day)
              [] b.t = "Gregorian" -> Gregorian_toFixed(b.y, b.m, day)
              [] b.t = "Hebrew" -> Hebrew_toFixed(b.y, b.m, day)
              [] b.t = "Islamic" -> Islamic_toFixed(b.y, b.m, day)
              [] b.t = "ISO" -> ISO_toFixed(b.y, b.w, day)
              [] b.t = "Julian" -> Julian_toFixed(b.y, b.m, day)
              [] b.t = "ModifiedFrench" -> Modified_toFixed(b.y, b.m, day)
              [] OTHER -> Gregorian_toFixed(b.y, b.m, day)
    IN  CalendarDate(<<"number", fixed, mod(dayMs, MILLISECONDS_PER_DAY)>>,
                     <<b.z>>, now)

\* Values given to the constructors and to the methods of the builder.
\* Time zones: from -MaxZone to -12, 0 and 1, from 14 to MaxZone.
MaxZone == 15

Zones == ((-MaxZone)..(-12)) \cup {0, 1} \cup (14..MaxZone)

YearValues == {0, 1, 2018}

MonthValues == {1, 12}

WeekValues == {1, 12}

DayValues == {1, 2}

HourValues == {0, 9}

MinuteValues == {0, 32}

SecondValues == {0, 30}

\* the argument lists ...date of new DateBuilder(type, ...date)
BuilderArgs ==
    LET Second == MonthValues \cup WeekValues
    IN  {<<>>}
        \cup {<<y>> : y \in YearValues}
        \cup {<<y, m>> : y \in YearValues, m \in Second}
        \cup {<<y, m, d>> : y \in YearValues, m \in Second, d \in DayValues}
        \cup {<<y, m, d, hh>> : y \in YearValues, m \in Second, d \in DayValues,
                                hh \in HourValues}
        \cup {<<y, m, d, hh, mm>> : y \in YearValues, m \in Second,
                                    d \in DayValues, hh \in HourValues,
                                    mm \in MinuteValues}
        \cup {<<y, m, d, hh, mm, ss>> : y \in YearValues, m \in Second,
                                        d \in DayValues, hh \in HourValues,
                                        mm \in MinuteValues, ss \in SecondValues}
        \cup {<<y, m, d, hh, mm, ss, z>> : y \in YearValues, m \in Second,
                                           d \in DayValues, hh \in HourValues,
                                           mm \in MinuteValues,
                                           ss \in SecondValues, z \in Zones}

\* the calendar types whose toFixed build() names and that are arithmetic,
\* and Roman for the types that fall to the default branch
CalendarTypes ==
    {"Armenian", "Coptic", "Egyptian", "Ethiopic", "Gregorian", "Hebrew",
     "Islamic", "ISO", "Julian", "ModifiedFrench", "Roman"}

\* the first argument of new CalendarDate: none, a number (a fixed date,
\* at midnight or at noon), a Date (its time value in days and milliseconds)
CalendarDateArgs ==
    {<<"undefined">>}
    \cup {<<"number", d, ms>> : d \in {-1, 0, 1, 719163, 737031},
                                ms \in {0, 43200000}}
    \cup {<<"Date", d, ms>> : d \in {-1, 0, 17868}, ms \in {0, 1}}

\* what new Date() may give: 2018-12-03T09:32:00.001Z
Nows == {<<17868, 34320001>>}

InitObjects ==
    /\ cal = "none"
    /\ pc = "start"
    /\ date = 0
    /\ denom = 1
    /\ tuple = <<>>
    /\ back = <<>>
    /\ NoOthers

\* new CalendarDate(date, timezone); tuple keeps the two arguments
NewCalendarDate ==
    /\ pc = "start"
    /\ \E arg \in CalendarDateArgs, now \in Nows,
          timezone \in {<<>>} \cup {<<z>> : z \in Zones} :
            /\ calDate' = CalendarDate(arg, timezone, now).object
            /\ thrown' = CalendarDate(arg, timezone, now).error
            /\ tuple' = <<arg, timezone>>
    /\ cal' = "CalendarDate"
    /\ pc' = "constructed"
    /\ UNCHANGED <<date, denom, back, givenYear, builder, sky>>

NewDateBuilder ==
    /\ pc = "start"
    /\ \E type \in CalendarTypes, args \in BuilderArgs :
            builder' = DateBuilder(type, args)
    /\ cal' = "DateBuilder"
    /\ pc' = "building"
    /\ UNCHANGED <<date, denom, tuple, back, givenYear, calDate, thrown, sky>>

\* a method of the builder that stores its argument and returns the builder
BuilderSet(b) ==
    /\ pc = "building"
    /\ builder' = b
    /\ thrown' = <<>>
    /\ cal' = "DateBuilder"
    /\ tuple' = <<>>
    /\ UNCHANGED <<pc, date, denom, back, givenYear, calDate, sky>>

\* a method of the builder that throws: the builder stays as it is
BuilderThrow(c, t, error) ==
    /\ pc = "building"
    /\ thrown' = error
    /\ cal' = c
    /\ tuple' = t
    /\ UNCHANGED <<pc, date, denom, back, givenYear, builder, calDate, sky>>

Builder_year == \E y \in YearValues : BuilderSet([builder EXCEPT !.y = y])

Builder_month == \E m \in MonthValues : BuilderSet([builder EXCEPT !.m = m])

Builder_week ==
    /\ pc = "building"
    /\ \E w \in WeekValues :
           IF builder.t # "ISO"
           THEN BuilderThrow("DateBuilder", <<>>,
                    <<"The week method only applies for the ISO calendar">>)
           ELSE BuilderSet([builder EXCEPT !.w = w])

Builder_day == \E d \in DayValues : BuilderSet([builder EXCEPT !.d = d])

Builder_hours == \E hh \in HourValues : BuilderSet([builder EXCEPT !.hh = hh])

Builder_min == \E mm \in MinuteValues : BuilderSet([builder EXCEPT !.mm = mm])

Builder_sec == \E ss \in SecondValues : BuilderSet([builder EXCEPT !.ss = ss])

\* zone(z); cal and tuple keep the call and its argument
Builder_zone ==
    \E z \in Zones :
        IF validateTimezone(z) # <<>>
        THEN BuilderThrow("DateBuilder.zone", <<z>>, validateTimezone(z))
        ELSE /\ pc = "building"
             /\ builder' = [builder EXCEPT !.z = z]
             /\ thrown' = <<>>
             /\ cal' = "DateBuilder.zone"
             /\ tuple' = <<z>>
             /\ UNCHANGED <<pc, date, denom, back, givenYear, calDate, sky>>

Builder_build ==
    /\ pc = "building"
    /\ \E now \in Nows :
            /\ calDate' = build(builder, now).object
            /\ thrown' = build(builder, now).error
    /\ cal' = "DateBuilder.build"
    /\ tuple' = <<>>
    /\ pc' = "built"
    /\ UNCHANGED <<date, denom, back, givenYear, builder, sky>>

\* toFixed of the calendar type t
TypeToFixed(t, y, m, w, d) ==
    CASE t = "Armenian" -> Armenian_toFixed(y, m, d)
      [] t = "Coptic" -> Coptic_toFixed(y, m, d)
      [] t = "Egyptian" -> Egyptian_toFixed(y, m, d)
      [] t = "Ethiopic" -> Ethiopic_toFixed(y, m, d)
      [] t = "Gregorian" -> Gregorian_toFixed(y, m, d)
      [] t = "Hebrew" -> Hebrew_toFixed(y, m, d)
      [] t = "Islamic" -> Islamic_toFixed(y, m, d)
      [] t = "ISO" -> ISO_toFixed(y, w, d)
      [] t = "Julian" -> Julian_toFixed(y, m, d)
      [] t = "ModifiedFrench" -> Modified_toFixed(y, m, d)

\* fromFixed(d)[0] of the calendar type t: the year of the fixed date d
TypeYear(t, d) ==
    CASE t = "Armenian" -> Armenian_fromFixed(d)[1]
      [] t = "Coptic" -> Coptic_fromFixed(d)[1]
      [] t = "Egyptian" -> Egyptian_fromFixed(d)[1]
      [] t = "Ethiopic" -> Ethiopic_fromFixed(d)[1]
      [] t = "Gregorian" -> Gregorian_fromFixed(d)[1]
      [] t = "Hebrew" -> Hebrew_fromFixed(d)[1]
      [] t = "Islamic" -> Islamic_fromFixed(d)[1]
      [] t = "ISO" -> ISO_fromFixed(d)[1]
      [] t = "Julian" -> Julian_fromFixed(d)[1]
      [] t = "ModifiedFrench" -> Modified_fromFixed(d)[1]

\* the case labels of the switch of dayOfYear in their order (Roman shares
\* the statement of Julian); no statement ends with a break
DayOfYearSwitch ==
    <<"Armenian", "Coptic", "Egyptian", "Ethiopic", "Gregorian", "ISO",
      "Hebrew", "Islamic", "Julian", "Persian", "French", "ModifiedFrench",
      "default">>

\* CalendarDate.dayOfYear(type); type is <<>> (not given) or <<t>>.  The
\* switch is entered at the label of the type and every statement from
\* there to the end of the switch is executed: firstDay keeps what the last
\* of them assigns.  The floors of Gregorian.yearFromFixed see only the
\* whole days of rd.
dayOfYear(cd, type) ==
    LET label == IF type = <<>> THEN "default"
                 ELSE IF type[1] = "Roman" THEN "Julian"
                 ELSE IF \E i \in 1..Len(DayOfYearSwitch) : DayOfYearSwitch[i] = type[1]
                      THEN type[1]
                 ELSE "default"
        entry == CHOOSE i \in 1..Len(DayOfYearSwitch) : DayOfYearSwitch[i] = label
        executed == SubSeq(DayOfYearSwitch, entry, Len(DayOfYearSwitch))
        last == executed[Len(executed)]
        calendar == IF last = "default" THEN "Gregorian" ELSE last
        firstDay == TypeToFixed(calendar, TypeYear(calendar, cd.rd[1]), 1, 1, 1)
    IN  <<cd.rd[1] - firstDay + 1, cd.rd[2]>>

\* dayOfYear(type) of a CalendarDate made by the constructor; tuple keeps
\* the type asked for
DayOfYear ==
    /\ pc = "constructed"
    /\ calDate # <<>>
    /\ \E type \in {<<>>} \cup {<<t>> : t \in {"Gregorian", "Julian", "Coptic",
                                                "Islamic", "Egyptian"}} :
            /\ back' = <<dayOfYear(calDate, type)>>
            /\ tuple' = type
    /\ cal' = "CalendarDate.dayOfYear"
    /\ pc' = "done"
    /\ UNCHANGED <<date, denom, givenYear, builder, calDate, thrown, sky>>

NextObjects ==
    \/ NewCalendarDate
    \/ NewDateBuilder
    \/ DayOfYear
    \/ Builder_year \/ Builder_month \/ Builder_week \/ Builder_day
    \/ Builder_hours \/ Builder_min \/ Builder_sec \/ Builder_zone
    \/ Builder_build

SpecObjects == InitObjects /\ [][NextObjects]_vars

IllegalZone(z) == z < -12 \/ z > 14

\* C14: no CalendarDate has a time zone outside -12..14; the CalendarDate
\* constructor and DateBuilder.zone(z) throw exactly when z < -12 or z > 14,
\* zone(z) storing z when it is accepted and leaving the builder as it was
\* when it throws; build() on a builder holding an illegal zone throws and
\* makes no CalendarDate.
TimezoneValidation ==
    /\ [](/\ calDate # <<>> => ~IllegalZone(calDate.timeZone)
          /\ (cal = "CalendarDate" /\ pc = "constructed") =>
                 /\ (thrown # <<>>) <=>
                        (tuple[2] # <<>> /\ IllegalZone(tuple[2][1]))
                 /\ (thrown # <<>>) <=> (calDate = <<>>)
          /\ cal = "DateBuilder.zone" =>
                 /\ (thrown # <<>>) <=> IllegalZone(tuple[1])
                 /\ (thrown = <<>>) => builder.z = tuple[1]
          /\ pc = "built" =>
                 /\ (thrown # <<>>) <=> IllegalZone(builder.z)
                 /\ (thrown # <<>>) <=> (calDate = <<>>))
    /\ [][(cal' = "DateBuilder.zone" /\ thrown' # <<>>) => builder' = builder]_vars

\* a builder given zone 15 by its constructor fails at build()
TimezoneValidationReached ==
    /\ pc = "built"
    /\ builder.z = 15
    /\ calDate = <<>>
    /\ thrown = <<"Illegal Time Zone", 15>>

\* C15: new CalendarDate(rd) has toRD() = rd, toJulianDayNumber() =
\* rd + 1721424.5 and toDate() the Date rd - 719163 days after the Unix
\* epoch; new CalendarDate(D) has toDate() = D and toRD() = 719163 + the
\* time value of D in days; 719163 is Gregorian.toFixed(1970, 1, 1) and its
\* Julian day number is 2440587.5.
CalendarDateKeepsItsArgument ==
    /\ UNIX_DATE_EPOCH = Gregorian_toFixed(1970, 1, 1)
    /\ JD_fromFixed(<<719163, 0>>) = <<2440587, 43200000>>
    /\ (cal = "CalendarDate" /\ calDate # <<>> /\ tuple[1][1] = "number") =>
           /\ toRD(calDate) = <<tuple[1][2], tuple[1][3]>>
           /\ toJulianDayNumber(calDate) =
                  Moment(tuple[1][2] + 1721424, tuple[1][3] + 43200000)
           /\ toDate(calDate) = <<tuple[1][2] - 719163, tuple[1][3]>>
    /\ (cal = "CalendarDate" /\ calDate # <<>> /\ tuple[1][1] = "Date") =>
           /\ toDate(calDate) = <<tuple[1][2], tuple[1][3]>>
           /\ toRD(calDate) = <<719163 + tuple[1][2], tuple[1][3]>>

\* C16: for a builder of an arithmetic calendar type C, build().toRD() is
\* C.toFixed(y, m, d) (week w for ISO) + hh/24 + mm/1440 + ss/86400 - z/24.
BuilderFixedDate ==
    (pc = "built" /\ calDate # <<>> /\ builder.t # "Roman") =>
        toRD(calDate) =
            Moment(TypeToFixed(builder.t, builder.y, builder.m, builder.w, builder.d),
                   builder.hh * 3600000 + builder.mm * 60000
                   + builder.ss * 1000 - builder.z * 3600000)

(***************************************************************************)
(* Astronomical layer: twilight and the lunar crescent.                    *)
(*                                                                         *)
(* The ephemeris library is outside the repository.  What it answers is    *)
(* an input: for one call of momentFromDepression, whether the sine offset *)
(* computed from the declination lies in -1..1, the day fraction obtained  *)
(* from its arcsine and the equation of time (both in milliseconds); for   *)
(* one call of isCrescentVisible, the truth of the visibility criterion;   *)
(* for phasisOnOrBefore, the lunar phase and the days on which the         *)
(* criterion holds.  Moments are mixed numbers <<days, ms>>.  A locality   *)
(* has whole degrees of longitude and whole hours of zone.                 *)
(***************************************************************************)
universalFromLocal(t, locale) == Moment(t[1], t[2] - locale.longitude * 240000)

standardFromUniversal(t, locale) == Moment(t[1], t[2] + locale.zone * 3600000)

universalFromStandard(t, locale) == Moment(t[1], t[2] - locale.zone * 3600000)

standardFromLocal(t, locale) ==
    standardFromUniversal(universalFromLocal(t, locale), locale)

\* answer.inRange: Math.abs(sineOffset) <= 1
\* answer.arc:     _mod(0.5 + Math.asin(sineOffset) / (2 * pi), 1) - 0.25
\* answer.eqtime:  what localFromApparent takes off
\* The result is <<>> for null and <<moment>> otherwise.
momentFromDepression(approx, locale, angle, answer) ==
    LET morning == IF 2 * approx[2] < MILLISECONDS_PER_DAY THEN -1 ELSE 1
    IN  IF ~answer.inRange
        THEN <<>>
        ELSE <<Moment(approx[1], MILLISECONDS_PER_DAY \div 2
                                 + morning * answer.arc - answer.eqtime)>>

\* answers[1] is the ephemeris answer of the first call, answers[2] of the
\* second
dawn(d, locale, angle, answers) ==
    LET approx == momentFromDepression(Moment(d, 21600000), locale, angle, answers[1])
        x == IF approx = <<>> THEN Moment(d, 0) ELSE approx[1]
        result == momentFromDepression(x, locale, angle, answers[2])
    IN  IF result = <<>> THEN <<>> ELSE <<standardFromLocal(result[1], locale)>>

\* slip: a first estimate without value already ends the computation
dusk_nullAtFirstPass(d, locale, angle, answers) ==
    LET approx == momentFromDepression(Moment(d, 64800000), locale, angle, answers[1])
        x == IF approx = <<>> THEN Moment(d, 85536000) ELSE approx[1]
        result == momentFromDepression(x, locale, angle, answers[2])
    IN  IF approx = <<>> \/ result = <<>>
        THEN <<>>
        ELSE <<standardFromLocal(result[1], locale)>>

dusk(d, locale, angle, answers) ==
    LET approx == momentFromDepression(Moment(d, 64800000), locale, angle, answers[1])
        x == IF approx = <<>> THEN Moment(d, 85536000) ELSE approx[1]
        result == momentFromDepression(x, locale, angle, answers[2])
    IN  IF result = <<>> THEN <<>> ELSE <<standardFromLocal(result[1], locale)>>

\* Astronomy.isCrescentVisible(d, locale): the dusk of the day before, the
\* Julian day for which the ephemeris is asked, and the criterion crit the
\* positions it answers give.  The dusk goes into universalFromStandard as
\* it is; in the subtraction there a null counts as the number 0.
isCrescentVisible(d, locale, answers, crit) ==
    LET duskBefore == dusk(d - 1, locale, 45, answers)
        number == IF duskBefore = <<>> THEN <<0, 0>> ELSE duskBefore[1]
        t == universalFromStandard(number, locale)
    IN  [dusk |-> duskBefore, jde |-> JD_fromFixed(t), visible |-> crit]

\* moonphase.meanLunarMonth, in ten-thousandths of a day
MEAN_SYNODIC_MONTH == 295306

\* the scan loop from iteration i on: the day left in `crescent' and the
\* number of iterations made
RECURSIVE PhasisScan(_, _, _, _, _)
PhasisScan(tau, i, locale, answers, visible) ==
    LET crescent == tau + i
    IN  IF isCrescentVisible(crescent, locale, answers, crescent \in visible).visible
           \/ ~(i + 1 < 30)
        THEN <<crescent, i + 1>>
        ELSE PhasisScan(tau, i + 1, locale, answers, visible)

\* slip: the early start is taken only within less than 3 days of the mean
phasisOnOrBefore_lessThanThree(d, locale, answers, phase, visible) ==
    LET mean == d - Floor(MEAN_SYNODIC_MONTH * phase, 3600000)
        tau == IF d - mean < 3
                  /\ ~isCrescentVisible(d, locale, answers, d \in visible).visible
               THEN mean - 30
               ELSE mean - 2
    IN  PhasisScan(tau, 0, locale, answers, visible)

\* Astronomy.phasisOnOrBefore(d, locale): <<the day returned, the number of
\* scan iterations>>.  phase is the elongation of the moon in whole degrees
\* (the code's phase is phase / 360); visible is the set of days on which
\* the visibility criterion holds.
phasisOnOrBefore(d, locale, answers, phase, visible) ==
    LET mean == d - Floor(MEAN_SYNODIC_MONTH * phase, 3600000)
        tau == IF d - mean <= 3
                  /\ ~isCrescentVisible(d, locale, answers, d \in visible).visible
               THEN mean - 30
               ELSE mean - 2
    IN  PhasisScan(tau, 0, locale, answers, visible)

\* a locality of the tropics east of Greenwich, one of the Arctic west of it
Localities ==
    {[latitude |-> 21, longitude |-> 40, zone |-> 3],
     [latitude |-> 70, longitude |-> -20, zone |-> -1]}

DepressionAnswers ==
    {[inRange |-> FALSE, arc |-> 0, eqtime |-> 0]}
    \cup {[inRange |-> TRUE, arc |-> a, eqtime |-> e] :
              a \in {19800000, 21600000}, e \in {-840000, 0}}

\* depression angles, in tenths of a degree
Angles == {60, 180}

TwilightDates == {-1, 0, 737031}

InitTwilight ==
    /\ cal = "none"
    /\ pc = "start"
    /\ date \in TwilightDates
    /\ denom = 1
    /\ tuple = <<>>
    /\ back = <<>>
    /\ NoOthers

\* sky keeps the locality and what the ephemeris answered
Dawn ==
    /\ pc = "start"
    /\ \E locale \in Localities, angle \in Angles,
          first \in DepressionAnswers, second \in DepressionAnswers :
            /\ back' = dawn(date, locale, angle, <<first, second>>)
            /\ sky' = [locale |-> locale, answers |-> <<first, second>>,
                       asked |-> <<>>]
    /\ cal' = "dawn"
    /\ pc' = "done"
    /\ UNCHANGED <<date, denom, tuple, givenYear, builder, calDate, thrown>>

Dusk ==
    /\ pc = "start"
    /\ \E locale \in Localities, angle \in Angles,
          first \in DepressionAnswers, second \in DepressionAnswers :
            /\ back' = dusk(date, locale, angle, <<first, second>>)
            /\ sky' = [locale |-> locale, answers |-> <<first, second>>,
                       asked |-> <<>>]
    /\ cal' = "dusk"
    /\ pc' = "done"
    /\ UNCHANGED <<date, denom, tuple, givenYear, builder, calDate, thrown>>

\* tuple keeps the dusk obtained, sky.asked the Julian day for which the
\* ephemeris was asked for the positions of moon and sun
IsCrescentVisible ==
    /\ pc = "start"
    /\ \E locale \in Localities, crit \in BOOLEAN,
          first \in DepressionAnswers, second \in DepressionAnswers :
            /\ tuple' = isCrescentVisible(date, locale, <<first, second>>, crit).dusk
            /\ back' = <<isCrescentVisible(date, locale, <<first, second>>, crit).visible>>
            /\ sky' = [locale |-> locale, answers |-> <<first, second>>,
                       asked |-> <<isCrescentVisible(date, locale,
                                                     <<first, second>>, crit).jde>>]
    /\ cal' = "isCrescentVisible"
    /\ pc' = "done"
    /\ UNCHANGED <<date, denom, givenYear, builder, calDate, thrown>>

NextTwilight == Dawn \/ Dusk \/ IsCrescentVisible

SpecTwilight == InitTwilight /\ [][NextTwilight]_vars

\* the moment the second call starts from
RefinementStart(c, d, first) ==
    IF first.inRange
    THEN momentFromDepression(Moment(d, IF c = "dawn" THEN 21600000 ELSE 64800000),
                              sky.locale, 0, first)[1]
    ELSE IF c = "dawn" THEN Moment(d, 0) ELSE Moment(d, 85536000)

\* C18, as claimed: dawn and dusk return null whenever momentFromDepression
\* returns no value on either of the two passes, and otherwise the refined
\* moment in standard time.
TwilightNullAtAnyPass ==
    cal \in {"dawn", "dusk"} =>
        ((back = <<>>) <=>
            (~sky.answers[1].inRange \/ ~sky.answers[2].inRange))

\* C18, amended: dawn and dusk return null exactly when the second call of
\* momentFromDepression (the refinement) returns no value; a first estimate
\* without value is replaced by date (dawn) or date + 0.99 (dusk); otherwise
\* they return the refined moment converted to standard time.
TwilightNullAtRefinement ==
    cal \in {"dawn", "dusk"} =>
        IF ~sky.answers[2].inRange
        THEN back = <<>>
        ELSE back = <<standardFromLocal(
                        momentFromDepression(
                            RefinementStart(cal, date, sky.answers[1]),
                            sky.locale, 0, sky.answers[2])[1],
                        sky.locale)>>

\* a dusk found by the refinement although the first estimate had no value
TwilightNullAtRefinementReached ==
    /\ cal = "dusk"
    /\ ~sky.answers[1].inRange
    /\ sky.answers[2].inRange
    /\ back # <<>>

\* C19: when the dusk of the day before has no value, isCrescentVisible
\* stops there: the ephemeris is not asked for a Julian day made from it.
CrescentChecksMissingDusk ==
    (cal = "isCrescentVisible" /\ tuple = <<>>) => sky.asked = <<>>

\* Phasis: the elongations (whole degrees) show a mean 0, 1, 2, 3, 4, 5,
\* 14, 28 and 29 days before the date; the crescent is visible on at most
\* MaxVisibleDays days.  Every dusk of the scan has a value or none has.
MaxVisibleDays == 2

PhaseDegrees == {0, 13, 25, 37, 49, 61, 180, 350, 359}

PhasisDates == {737031}

\* days counted from the mean: the ends and the inside of both scan windows
\* (mean - 30 .. mean - 1 and mean - 2 .. mean + 27), the dates, days past
\* the windows
VisibleOffsets ==
    {-30, -29, -28, -17, -4, -3, -2, -1, 0, 1, 2, 3, 4, 5, 14, 26, 27, 28, 29}

VisibleSets(mean) ==
    {{}} \cup {{mean + f[k] : k \in 1..MaxVisibleDays} :
                   f \in [1..MaxVisibleDays -> VisibleOffsets]}

InitPhasis ==
    /\ cal = "none"
    /\ pc = "start"
    /\ date \in PhasisDates
    /\ denom = 1
    /\ tuple = <<>>
    /\ back = <<>>
    /\ givenYear = 0
    /\ builder = <<>>
    /\ calDate = <<>>
    /\ thrown = <<>>
    /\ \E phase \in PhaseDegrees :
          \E visible \in VisibleSets(date - Floor(MEAN_SYNODIC_MONTH * phase, 3600000)) :
              sky = [phase |-> phase, visible |-> visible]

PhasisOnOrBefore ==
    /\ pc = "start"
    /\ \E locale \in Localities,
          answer \in {a \in DepressionAnswers : a.arc \in {0, 21600000} /\ a.eqtime = 0} :
            back' = phasisOnOrBefore(date, locale, <<answer, answer>>,
                                     sky.phase, sky.visible)
    /\ cal' = "phasisOnOrBefore"
    /\ pc' = "done"
    /\ UNCHANGED <<date, denom, tuple, givenYear, builder, calDate, thrown, sky>>

\* ObservationalIslamic.fromFixed(d, locale); the quotient (crescent -
\* Islamic.EPOCH) / MEAN_SYNODIC_MONTH is rounded from its whole part and
\* remainder
ObservationalIslamic_fromFixed(d, locale, answers, phase, visible) ==
    LET crescent == phasisOnOrBefore(d, locale, answers, phase, visible)[1]
        qr == MulQR(10000, crescent - Islamic_EPOCH, MEAN_SYNODIC_MONTH)
        elapsedMonths == qr[1] + Round(qr[2], MEAN_SYNODIC_MONTH)
        year == Floor(elapsedMonths, 12) + 1
        month == mod(elapsedMonths, 12) + 1
        day == d - crescent + 1
    IN  toArray(year, month, day)

ObservationalIslamicFromFixed ==
    /\ pc = "start"
    /\ \E locale \in Localities,
          answer \in {a \in DepressionAnswers : a.arc \in {0, 21600000} /\ a.eqtime = 0} :
            tuple' = ObservationalIslamic_fromFixed(date, locale, <<answer, answer>>,
                                                    sky.phase, sky.visible)
    /\ cal' = "ObservationalIslamic.fromFixed"
    /\ pc' = "done"
    /\ UNCHANGED <<date, denom, back, givenYear, builder, calDate, thrown, sky>>

NextPhasis == PhasisOnOrBefore \/ ObservationalIslamicFromFixed

SpecPhasis == InitPhasis /\ [][NextPhasis]_vars

\* C20: phasisOnOrBefore makes at most 30 scan iterations; with mean = date
\* - floor(MEAN_SYNODIC_MONTH * phase) and tau = mean - 30 if date - mean <=
\* 3 and the crescent is not visible on date, else tau = mean - 2, it
\* returns the first visible day of tau .. tau + 29 when there is one; the
\* result lies in mean - 30 .. mean + 27.
PhasisWindow ==
    cal = "phasisOnOrBefore" =>
        LET mean == date - ((MEAN_SYNODIC_MONTH * sky.phase) \div 3600000)
            tau == IF date - mean <= 3 /\ date \notin sky.visible
                   THEN mean - 30 ELSE mean - 2
            seen == (tau..(tau + 29)) \cap sky.visible
        IN  /\ back[2] <= 30
            /\ seen # {} => (back[1] \in seen /\ \A c \in seen : back[1] <= c)
            /\ back[1] \in (mean - 30)..(mean + 27)

\* the mean is 3 days before the date, the crescent is not visible on the
\* date, and the scan from 30 days before the mean finds a visible day
PhasisWindowReached ==
    /\ cal = "phasisOnOrBefore"
    /\ sky.phase = 37
    /\ date \notin sky.visible
    /\ back[1] \in sky.visible
    /\ back[1] < date - 5

\* C21: when the crescent test is false on all 30 candidate days of the
\* scan, phasisOnOrBefore signals the exhaustion as a failure instead of
\* returning a date.
PhasisExhaustionSignalled ==
    cal = "phasisOnOrBefore" =>
        LET mean == date - ((MEAN_SYNODIC_MONTH * sky.phase) \div 3600000)
            tau == IF date - mean <= 3 /\ date \notin sky.visible
                   THEN mean - 30 ELSE mean - 2
        IN  (tau..(tau + 29)) \cap sky.visible = {} => thrown # <<>>

(***************************************************************************)
(* toArray of a day with a time of day                                     *)
(***************************************************************************)
\* days are counted in ticks, TicksPerMs ticks to the millisecond
TicksPerMs == 4

MsTicksPerDay == TicksPerMs * MILLISECONDS_PER_DAY

\* ticks within the second: the first and the last ones, and those around
\* the middle of the second
SubSecondTicks ==
    (0..(2 * TicksPerMs))
    \cup ((500 * TicksPerMs - 1)..(500 * TicksPerMs + 1))
    \cup ((998 * TicksPerMs)..(1000 * TicksPerMs - 1))

\* days -1, 0 and 1 at the first, a middle and the last hour, minute and
\* second
ArrayDays ==
    {n * MsTicksPerDay + h * 3600000 * TicksPerMs + m * 60000 * TicksPerMs
         + s * 1000 * TicksPerMs + t :
       n \in -1..1, h \in {0, 11, 23}, m \in {0, 30, 59}, s \in {0, 29, 59},
       t \in SubSecondTicks}

InitArray ==
    /\ cal = "none"
    /\ pc = "start"
    /\ date \in ArrayDays
    /\ denom = MsTicksPerDay
    /\ tuple = <<>>
    /\ back = <<>>
    /\ NoOthers

\* back keeps the year and the month given
ToArray ==
    /\ pc = "start"
    /\ \E year \in {-1, 2018}, month \in {1, 13} :
          /\ tuple' = toArrayQ(year, month, date, denom)
          /\ back' = <<year, month>>
    /\ cal' = "toArray"
    /\ pc' = "done"
    /\ UNCHANGED <<date, denom>>
    /\ UNCHANGED otherVars

NextArray == ToArray

SpecArray == InitArray /\ [][NextArray]_vars

\* the moment an array stands for, in ticks
ArrayTicks(a) ==
    a[3] * MsTicksPerDay + a[4] * 3600000 * TicksPerMs
        + a[5] * 60000 * TicksPerMs + a[6] * TicksPerMs

\* C22: toArray(year, month, day) returns [year, month, D, h, m, s] with D
\* an integer, 0 <= h < 24, 0 <= m < 60, 0 <= s < 60, s a whole number of
\* milliseconds, and D + h/24 + m/1440 + s/86400 within half a millisecond
\* of day; when rounding brings the seconds to 60 the carry goes to the
\* minute, then the hour, then the day: the result is then the start of the
\* minute after the one day lies in.
ToArrayExact ==
    cal = "toArray" =>
        LET error == ArrayTicks(tuple) - date
            minute == Floor(date, 60000 * TicksPerMs)
            secondTicks == date - minute * 60000 * TicksPerMs
        IN  /\ tuple[1] = back[1]
            /\ tuple[2] = back[2]
            /\ tuple[3] \in Int
            /\ tuple[4] \in 0..23
            /\ tuple[5] \in 0..59
            /\ tuple[6] \in 0..59999
            /\ 2 * error <= TicksPerMs
            /\ -2 * error <= TicksPerMs
            /\ 2 * secondTicks >= (2 * 60000 - 1) * TicksPerMs =>
                   ArrayTicks(tuple) = (minute + 1) * 60000 * TicksPerMs

\* a moment within half a millisecond of the end of day 1: the carry has
\* gone through minute and hour to the day
ToArrayExactReached ==
    /\ cal = "toArray"
    /\ Floor(date, denom) = 1
    /\ date % denom # 0
    /\ tuple = <<2018, 13, 2, 0, 0, 0>>

(***************************************************************************)
(* The Hebrew year                                                         *)
(***************************************************************************)
\* C23: for every Hebrew year y the year length newYear(y + 1) - newYear(y)
\* is one of 353, 354, 355, 383, 384, 385, and it is 383, 384 or 385
\* exactly when isLeapYear(y).
HebrewYearLengths ==
    cal = "Hebrew.daysInYear" =>
        /\ back[1] \in {353, 354, 355, 383, 384, 385}
        /\ back[1] \in {383, 384, 385} <=> Hebrew_isLeapYear(givenYear)

\* a leap year that would have had 382 days: the new year after it is
\* postponed by 1 day
HebrewYearLengthsReached ==
    /\ cal = "Hebrew.daysInYear"
    /\ newYearDelay(givenYear + 1) = 1
    /\ back = <<383>>

\* C30: Hebrew.newYear(y) never falls on a Sunday, Wednesday or Friday:
\* getWeekday(newYear(y)) is not 0, 3 or 5, also after the postponements of
\* 1 and 2 days applied by newYearDelay.
HebrewNewYearWeekday ==
    cal = "Hebrew.newYear" => getWeekday(back[1]) \notin {0, 3, 5}

\* a new year postponed by 2 days
HebrewNewYearWeekdayReached ==
    /\ cal = "Hebrew.newYear"
    /\ newYearDelay(givenYear) = 2
    /\ getWeekday(back[1]) = 4

(***************************************************************************)
(* Conformance vectors of the epochs                                       *)
(***************************************************************************)
\* year, month and day given to toFixed: the years 0, 1 and 622
VectorDates == {<<y, m, d>> : y \in {0, 1, 622}, m \in 1..12, d \in 1..30}

InitVectors ==
    /\ cal \in {"Gregorian", "Julian", "Islamic"}
    /\ pc = "converted"
    /\ date = 0
    /\ denom = 1
    /\ tuple \in VectorDates
    /\ back = <<>>
    /\ NoOthers

NextVectors == GregorianToFixed \/ JulianToFixed \/ IslamicToFixed

SpecVectors == InitVectors /\ [][NextVectors]_vars

\* C24, as claimed: Islamic.toFixed(622, 7, 16) = 227015 (the Islamic
\* calendar's own epoch) and Julian.toFixed(0, 12, 30) = -1.
EpochVectorsInOwnCalendar ==
    pc = "done" =>
        /\ (cal = "Islamic" /\ tuple = <<622, 7, 16>>) => back = <<227015>>
        /\ (cal = "Julian" /\ tuple = <<0, 12, 30>>) => back = <<-1>>

\* C24, amended: the epochs are written in the calendar before:
\* Julian.toFixed(622, 7, 16) = 227015 = Islamic.toFixed(1, 1, 1) (the
\* Islamic epoch), and Gregorian.toFixed(0, 12, 30) = -1 =
\* Julian.toFixed(1, 1, 1) (the Julian epoch).
EpochVectors ==
    pc = "done" =>
        /\ (cal = "Julian" /\ tuple = <<622, 7, 16>>) => back = <<227015>>
        /\ (cal = "Islamic" /\ tuple = <<1, 1, 1>>) => back = <<227015>>
        /\ (cal = "Gregorian" /\ tuple = <<0, 12, 30>>) => back = <<-1>>
        /\ (cal = "Julian" /\ tuple = <<1, 1, 1>>) => back = <<-1>>

\* the Islamic epoch obtained from its Julian date
EpochVectorsReached ==
    /\ pc = "done"
    /\ cal = "Julian"
    /\ tuple = <<622, 7, 16>>
    /\ back = <<Islamic_EPOCH>>

(***************************************************************************)
(* The two loops of Hebrew.fromFixed                                       *)
(***************************************************************************)
\* C25: for every integer fixed date d, Hebrew.fromFixed(d) terminates: its
\* year search stops at the year Y with newYear(Y) <= d < newYear(Y + 1),
\* its month scan breaks within at most 13 iterations, and the result has
\* month in 1..13 (13 only when isLeapYear(Y)) and 1 <= day <=
\* lastDayOfMonth(Y, month).
HebrewFromFixedLoops ==
    (cal = "Hebrew" /\ pc = "converted") =>
        LET Y == tuple[1]
            month == tuple[2]
            startMonth == IF date < Hebrew_toFixed(Y, 1, 1) THEN TISHRI ELSE 1
        IN  /\ newYear(Y) <= date
            /\ date < newYear(Y + 1)
            /\ month - startMonth \in 0..12
            /\ date <= Hebrew_toFixed(Y, month, lastDayOfMonth(Y, month))
            /\ month \in 1..13
            /\ month = 13 => Hebrew_isLeapYear(Y)
            /\ tuple[3] >= 1
            /\ tuple[3] <= lastDayOfMonth(Y, month)

\* the last day of the 13th month: the scan from Tishri has made 7
\* iterations
HebrewFromFixedLoopsReached ==
    /\ cal = "Hebrew"
    /\ pc = "converted"
    /\ tuple[2] = 13
    /\ tuple[3] = 29
    /\ date + 1 = Hebrew_toFixed(tuple[1], 1, 1)

(***************************************************************************)
(* The crescent found and the date asked for                               *)
(***************************************************************************)
\* C26: phasisOnOrBefore(date, locale) never returns a day later than date,
\* whatever days the crescent test reports as visible; consequently
\* ObservationalIslamic.fromFixed(date) always returns a day of month >= 1.
PhasisNotAfterDate ==
    /\ cal = "phasisOnOrBefore" => back[1] <= date
    /\ cal = "ObservationalIslamic.fromFixed" => tuple[3] >= 1

(***************************************************************************)
(* Day of the year                                                         *)
(***************************************************************************)
\* C27: CalendarDate.dayOfYear(type) returns the ordinal of the date within
\* its year in the calendar named by type: rd - C.toFixed(Y, 1, 1) + 1,
\* where C is the calendar of type and Y the year of C.fromFixed(rd) (for
\* example for Julian, Coptic, Islamic and Egyptian); the Gregorian year is
\* used only when type is omitted or Gregorian.  (Stated for whole fixed
\* dates.)
DayOfYearInItsCalendar ==
    (cal = "CalendarDate.dayOfYear" /\ calDate.rd[2] = 0) =>
        LET rd == calDate.rd[1]
            C == IF tuple = <<>> THEN "Gregorian" ELSE tuple[1]
        IN  back = <<<<rd - TypeToFixed(C, TypeYear(C, rd), 1, 1, 1) + 1, 0>>>>

(***************************************************************************)
(* Gregorian.fromFixed, day by day                                         *)
(***************************************************************************)
\* the length L(y, m) of a Gregorian month
GregorianMonthLength(y, m) ==
    IF m = 2 THEN (IF Gregorian_isLeapYear(y) THEN 29 ELSE 28)
    ELSE IF m \in {4, 6, 9, 11} THEN 30
    ELSE 31

\* C28: Gregorian.fromFixed enumerates the proleptic Gregorian calendar day
\* by day: fixed date 1 is (1, 1, 1), and for every integer d with
\* fromFixed(d) = (y, m, day), 1 <= m <= 12 and 1 <= day <= L(y, m), and
\* fromFixed(d + 1) is (y, m, day + 1) if day < L(y, m), else (y, m + 1, 1)
\* if m < 12, else (y + 1, 1, 1).
GregorianDayByDay ==
    (cal = "Gregorian" /\ pc = "converted") =>
        LET y == tuple[1]
            m == tuple[2]
            day == tuple[3]
            next == Gregorian_fromFixed(date + 1)
        IN  /\ date = 1 => tuple = <<1, 1, 1, 0, 0, 0>>
            /\ m \in 1..12
            /\ day \in 1..GregorianMonthLength(y, m)
            /\ next = IF day < GregorianMonthLength(y, m)
                      THEN <<y, m, day + 1, 0, 0, 0>>
                      ELSE IF m < 12 THEN <<y, m + 1, 1, 0, 0, 0>>
                      ELSE <<y + 1, 1, 1, 0, 0, 0>>

\* the last day of year 0, the end of a 400-year cycle: the day after it is
\* fixed date 1
GregorianDayByDayReached ==
    /\ cal = "Gregorian"
    /\ pc = "converted"
    /\ date = 0
    /\ tuple = <<0, 12, 31, 0, 0, 0>>

(***************************************************************************)
(* The range of Easter                                                     *)
(***************************************************************************)
\* C29: for every Gregorian year y >= 1583 of the years checked,
\* Easter.Gregorian(y) is a Sunday, falls 1 to 7 days after the paschal
\* moon, and lies between 22 March and 25 April of Gregorian year y
\* inclusive; Easter.Orthodox(y) is a Sunday lying between 22 March and 25
\* April of Julian year y inclusive.
EasterRange ==
    givenYear >= 1583 =>
        /\ cal = "Easter.Gregorian" =>
               /\ getWeekday(back[1]) = Sunday
               /\ back[1] - Easter_Gregorian_paschalMoon(givenYear) \in 1..7
               /\ back[1] >= Gregorian_toFixed(givenYear, 3, 22)
               /\ back[1] <= Gregorian_toFixed(givenYear, 4, 25)
        /\ cal = "Easter.Orthodox" =>
               /\ getWeekday(back[1]) = Sunday
               /\ back[1] >= Julian_toFixed(givenYear, 3, 22)
               /\ back[1] <= Julian_toFixed(givenYear, 4, 25)

\* 1981: the shifted epact is 0, the paschal moon is put on Saturday 18
\* April and Easter is 19 April
EasterRangeReached ==
    /\ cal = "Easter.Gregorian"
    /\ givenYear = 1981
    /\ back = <<Gregorian_toFixed(1981, 4, 19)>>
    /\ Easter_Gregorian_paschalMoon(1981) = back[1] - 1

====
